---- MODULE Spec2Model ----
(***************************************************************************)
(* hype: tool registries (hype.tools), the three provider adapters and the *)
(* schema deriver (hype.function), as state machines.                      *)
(*                                                                         *)
(* Python values are records [t |-> type tag, v |-> number]; exceptions    *)
(* are the names of their classes.                                         *)
(***************************************************************************)
EXTENDS Integers, Sequences, FiniteSets, TLC

VARIABLES
    phase,       \* "new" | "ready" | "failed": the registry object's construction
    adapter,     \* "anthropic" | "openai" | "ollama": the Tools subclass
    supplied,    \* the functions handed to the constructor, in order
    resultType,  \* "None" | "int": the result_type argument
    tools,       \* Tools._tools: the insertion-ordered dict, as a sequence of entries
    future,      \* Tools.future: [state, value, exc]; state "absent" = no attribute
    last,        \* what the last operation did: its inputs, outputs, raised exception
    heap,        \* the FieldInfo objects the caller owns, by identity
    func,        \* the callable handed to wrap: [params, doc, ret]
    derived,     \* what input_and_output_types returned for it
    inv,         \* the last direct invocation of a descriptor, and its outcome
    functions,   \* the functions a JSON-RPC server was created with
    rpc,         \* the last handle_jsonrpc_request: its request and its outcome
    stdin,       \* the stdio handler's input stream: what readline gives next
    stdout,      \* the responses written to the stdio handler's output stream
    yielded,     \* the responses the stdio handler has yielded
    running,     \* the stdio handler's generator has not finished
    cli,         \* the run of `hype run MODULE FUNCTION --input FILE`
    registry,    \* Tasks._tasks: the tracked tasks by id
    atasks,      \* the asyncio tasks created so far
    http,        \* the calls of a function's endpoint, one per task
    lifespan,    \* the application's lifespan, and its wait_until_empty
    looked,      \* the last lookup of a task by id, and what it found
    batch,       \* a hype.job.Batch and its jobs
    report       \* the last status or progress read from it

toolVars == <<phase, adapter, supplied, resultType, tools, future, last>>
deriveVars == <<heap, func, derived>>
rpcVars == <<functions, rpc>>
stdioVars == <<stdin, stdout, yielded, running>>
serverVars == <<registry, atasks, http, lifespan, looked>>
jobVars == <<batch, report>>
callVars == <<inv, rpcVars, stdioVars, cli, serverVars, jobVars>>
restVars == <<toolVars, deriveVars, inv, rpcVars, stdioVars, cli, jobVars>>
vars == <<phase, adapter, supplied, resultType, tools, future, last,
          heap, func, derived, inv, functions, rpc, stdin, stdout, yielded,
          running, cli, registry, atasks, http, lifespan, looked, batch,
          report>>

----------------------------------------------------------------------------
(* Bounds *)

MaxFuncs == 2    \* functions handed to a constructor
MaxBatch == 2    \* tool calls in one batch dispatch
MaxParams == 2   \* parameters of a wrapped callable
MaxLines == 3    \* lines on the stdio handler's input stream
MaxInputs == 3   \* inputs in the input file of a batch run
MaxTasks == 2    \* tasks created while the application lives
MaxJobs == 2     \* jobs of a batch

\* the integers an argument bag carries
ArgValues == {0, 2}

----------------------------------------------------------------------------
(* Values *)

NoneVal == [t |-> "none", v |-> 0]
IntVal(n) == [t |-> "int", v |-> n]
BoolVal(b) == [t |-> "bool", v |-> IF b THEN 1 ELSE 0]
\* the float 1/n
RecipVal(n) == [t |-> "float", v |-> n]

\* str(int) for the integers the model reaches
IntStr(n) ==
    CASE n = 0 -> "0"
      [] n = 1 -> "1"
      [] n = 2 -> "2"
      [] n = 3 -> "3"
      [] n = 4 -> "4"
      [] OTHER -> "int"

\* str(1/n)
RecipStr(n) ==
    CASE n = 1 -> "1.0"
      [] n = 2 -> "0.5"
      [] n = 3 -> "0.3333333333333333"
      [] OTHER -> "float"

\* str(a / b) for the quotients the model reaches, given in tenths
TenthsStr(n) ==
    CASE n = 0 -> "0.0"
      [] n = 5 -> "0.5"
      [] n = 10 -> "1.0"
      [] n = 20 -> "2.0"
      [] OTHER -> "float"

\* str(result), as the Anthropic and OpenAI adapters render a result
Str(x) ==
    CASE x.t = "none" -> "None"
      [] x.t = "bool" -> (IF x.v = 1 THEN "True" ELSE "False")
      [] x.t = "int" -> IntStr(x.v)
      [] x.t = "float" -> RecipStr(x.v)
      [] x.t = "tenths" -> TenthsStr(x.v)
      [] x.t = "coroutine" -> "<coroutine object>"

----------------------------------------------------------------------------
(* concurrent.futures.Future as create_capture_function creates it *)

NoFuture == [state |-> "absent", value |-> NoneVal, exc |-> ""]
PendingFuture == [state |-> "pending", value |-> NoneVal, exc |-> ""]

\* the mutant: a set_result that overwrites a resolved future
SetResultUnguarded(fut, val) ==
    [fut |-> [state |-> "result", value |-> val, exc |-> ""], raised |-> ""]

\* future.set_result(value): InvalidStateError unless pending
SetResult(fut, val) ==
    IF fut.state = "pending"
    THEN [fut |-> [state |-> "result", value |-> val, exc |-> ""], raised |-> ""]
    ELSE [fut |-> fut, raised |-> "InvalidStateError"]

\* self.future.set_exception(exc): AttributeError when the registry has no
\* future attribute, InvalidStateError unless pending
SetException(fut, exc) ==
    CASE fut.state = "absent" -> [fut |-> fut, raised |-> "AttributeError"]
      [] fut.state = "pending" ->
            [fut |-> [state |-> "exception", value |-> NoneVal, exc |-> exc],
             raised |-> ""]
      [] OTHER -> [fut |-> fut, raised |-> "InvalidStateError"]

----------------------------------------------------------------------------
(* Function descriptors (hype.function.Function): [name, description, body] *)
(* description "" stands for a missing (None) description                  *)

IsPrimeFn ==
    [name |-> "is_prime", description |-> "Check if a number is prime.",
     body |-> "is_prime"]
CalculateFn ==
    [name |-> "calculate", description |-> "A simple calculator.",
     body |-> "calculate"]
\* a user function that happens to be called __return__
ReservedFn == [name |-> "__return__", description |-> "", body |-> "is_prime"]
\* a wrapped lambda: __name__ is "<lambda>", no docstring
LambdaFn == [name |-> "<lambda>", description |-> "", body |-> "calculate"]

FnPool == {IsPrimeFn, CalculateFn, ReservedFn, LambdaFn}

\* the capture function after `capture.name = "__return__"`
CaptureFn ==
    [name |-> "__return__",
     description |-> "Returns structured output back to the user.",
     body |-> "capture"]

\* the characters of the names the model uses
NameChars(name) ==
    CASE name = "is_prime" -> <<"i", "s", "_", "p", "r", "i", "m", "e">>
      [] name = "calculate" -> <<"c", "a", "l", "c", "u", "l", "a", "t", "e">>
      [] name = "__return__" -> <<"_", "_", "r", "e", "t", "u", "r", "n", "_", "_">>
      [] name = "<lambda>" -> <<"<", "l", "a", "m", "b", "d", "a", ">">>
      [] name = "missing" -> <<"m", "i", "s", "s", "i", "n", "g">>
      [] name = "add" -> <<"a", "d", "d">>
      [] name = "divide" -> <<"d", "i", "v", "i", "d", "e">>
      [] name = "error_func" ->
            <<"e", "r", "r", "o", "r", "_", "f", "u", "n", "c">>

\* the character class [a-zA-Z0-9_-]
AnthropicNameChars ==
    {"a", "b", "c", "d", "e", "f", "g", "h", "i", "j", "k", "l", "m",
     "n", "o", "p", "q", "r", "s", "t", "u", "v", "w", "x", "y", "z",
     "A", "B", "C", "D", "E", "F", "G", "H", "I", "J", "K", "L", "M",
     "N", "O", "P", "Q", "R", "S", "T", "U", "V", "W", "X", "Y", "Z",
     "0", "1", "2", "3", "4", "5", "6", "7", "8", "9", "_", "-"}

\* ANTHROPIC_TOOL_NAME_RE.match(name): ^[a-zA-Z0-9_-]{1,64}$
ANTHROPIC_TOOL_NAME_RE(name) ==
    LET cs == NameChars(name)
    IN  /\ Len(cs) >= 1
        /\ Len(cs) <= 64
        /\ \A i \in 1..Len(cs) : cs[i] \in AnthropicNameChars

\* self._tools.get(name): the position of the entry, 0 for None
Lookup(ts, name) ==
    IF \E i \in 1..Len(ts) : ts[i].name = name
    THEN CHOOSE i \in 1..Len(ts) : ts[i].name = name
    ELSE 0

Names(ts) == [i \in 1..Len(ts) |-> ts[i].name]

----------------------------------------------------------------------------
(* Construction: Tools.__init__ and AnthropicTools.__init__ *)

\* the `for function in functions` loop of Tools.__init__, from position i
RECURSIVE AddFunctions(_, _, _)
AddFunctions(fs, i, acc) ==
    IF i > Len(fs) THEN [exc |-> "", tools |-> acc]
    ELSE IF fs[i].name = "__return__" THEN [exc |-> "ValueError", tools |-> <<>>]
    ELSE IF Lookup(acc, fs[i].name) # 0 THEN [exc |-> "ValueError", tools |-> <<>>]
    ELSE AddFunctions(fs, i + 1, Append(acc, fs[i]))

\* Tools.__init__(functions, result_type)
ToolsInit(fs, rt) ==
    LET r == AddFunctions(fs, 1, <<>>)
    IN  IF r.exc # "" THEN [exc |-> r.exc, tools |-> <<>>, future |-> NoFuture]
        ELSE IF rt # "None"
             THEN [exc |-> "", tools |-> Append(r.tools, CaptureFn),
                   future |-> PendingFuture]
             ELSE [exc |-> "", tools |-> r.tools, future |-> NoFuture]

\* AnthropicTools.__init__: the name check iterates `functions` once, then
\* Tools.__init__ iterates it again; a single-pass iterator is empty by then
AnthropicInit(fs, singlePass, rt) ==
    IF \E i \in 1..Len(fs) : ~ANTHROPIC_TOOL_NAME_RE(fs[i].name)
    THEN [exc |-> "ValueError", tools |-> <<>>, future |-> NoFuture]
    ELSE ToolsInit(IF singlePass THEN <<>> ELSE fs, rt)

\* the constructor of the chosen subclass
NewTools(kind, fs, singlePass, rt) ==
    IF kind = "anthropic" THEN AnthropicInit(fs, singlePass, rt)
    ELSE ToolsInit(fs, rt)

----------------------------------------------------------------------------
(* Invocation: Function.__call__ over validate_call(validate_return=True)  *)

\* an argument bag: ok is the verdict of the input validation on it, n the
\* integer it carries (is_prime's n, the expression "1/n" for calculate, the
\* captured value for the capture tool)
Bags == {[ok |-> FALSE, n |-> 0]} \cup {[ok |-> TRUE, n |-> k] : k \in ArgValues}

\* int(n ** 0.5)
Isqrt(n) == CHOOSE r \in 0..n : r * r <= n /\ (r + 1) * (r + 1) > n

\* tests/test_tools.py is_prime
IsPrime(n) ==
    IF n <= 1 THEN FALSE
    ELSE \A i \in 2..Isqrt(n) : n % i # 0

\* the mutant: a capture that hands its value back through the normal return
\* channel and never resolves the future
BodyCaptureReturns(fn, n, fut) ==
    CASE fn.body = "is_prime" ->
            [exc |-> "", value |-> BoolVal(IsPrime(n)), fut |-> fut]
      [] fn.body = "calculate" ->
            IF n = 0
            THEN [exc |-> "ZeroDivisionError", value |-> NoneVal, fut |-> fut]
            ELSE [exc |-> "", value |-> RecipVal(n), fut |-> fut]
      [] fn.body = "capture" ->
            [exc |-> "", value |-> IntVal(n), fut |-> fut]

\* the wrapped callable's body on validated arguments: [exc, value, fut]
Body(fn, n, fut) ==
    CASE fn.body = "is_prime" ->
            [exc |-> "", value |-> BoolVal(IsPrime(n)), fut |-> fut]
      [] fn.body = "calculate" ->
            IF n = 0
            THEN [exc |-> "ZeroDivisionError", value |-> NoneVal, fut |-> fut]
            ELSE [exc |-> "", value |-> RecipVal(n), fut |-> fut]
      [] fn.body = "capture" ->
            LET r == SetResult(fut, IntVal(n))
            IN  [exc |-> r.raised, value |-> NoneVal, fut |-> r.fut]

\* ---- typed callables: validate_call(validate_return=True)(value) ----
\* A typed descriptor is [name, description, body, is_async, wrapped, params,
\* returns]: is_async says `async def`; wrapped is what validate_call gave
\* for an async callable, a "coroutinefunction" (a wrapper that is itself
\* async, which validates when awaited) or an "object" (a callable wrapper,
\* which validates at the call and hands back a coroutine); params are
\* [name, gt0], gt0 for Field(gt=0). Its argument bag is the keyword
\* mapping itself.

\* a string that is no number ("invalid", "two")
TextVal == [t |-> "str", v |-> 0]
\* the float a / b, in tenths
FloatVal(a, b) == [t |-> "tenths", v |-> (10 * a) \div b]
\* a coroutine object nobody has awaited
CoroVal == [t |-> "coroutine", v |-> 0]

\* tests/test_mcp_stdio.py: def add(a: int, b: int) -> int
AddFn ==
    [name |-> "add", description |-> "", body |-> "add", is_async |-> FALSE,
     wrapped |-> "function", returns |-> "int",
     params |-> <<[name |-> "a", gt0 |-> FALSE], [name |-> "b", gt0 |-> FALSE]>>]
\* tests/test_mcp_stdio.py: async def divide(a: int, b: int) -> float
DivideFn(w) ==
    [name |-> "divide", description |-> "", body |-> "divide", is_async |-> TRUE,
     wrapped |-> w, returns |-> "tenths",
     params |-> <<[name |-> "a", gt0 |-> FALSE], [name |-> "b", gt0 |-> FALSE]>>]
\* the synchronous equivalent of a callable: the same signature and body
\* under def
SyncEquivalent(fn) == [fn EXCEPT !.is_async = FALSE, !.wrapped = "function"]
SyncDivideFn == SyncEquivalent(DivideFn("object"))
\* examples/gui.py: def divide(x: int, y: int = Field(gt=0)) -> int
FloorDivideFn ==
    [name |-> "divide", description |-> "Divides one number by another.",
     body |-> "floordiv", is_async |-> FALSE, wrapped |-> "function",
     returns |-> "int",
     params |-> <<[name |-> "x", gt0 |-> FALSE], [name |-> "y", gt0 |-> TRUE]>>]

\* tests/test_cli.py: def add(a: int, b: int, c: int = 0) -> int
CliAddFn ==
    [name |-> "add", description |-> "", body |-> "add3", is_async |-> FALSE,
     wrapped |-> "function", returns |-> "int",
     params |-> <<[name |-> "a", gt0 |-> FALSE], [name |-> "b", gt0 |-> FALSE],
                  [name |-> "c", gt0 |-> FALSE]>>]

\* tests/test_gui.py: def error_func(x: int) -> int: raise ValueError(...)
ErrorFn ==
    [name |-> "error_func", description |-> "", body |-> "error",
     is_async |-> FALSE, wrapped |-> "function", returns |-> "int",
     params |-> <<[name |-> "x", gt0 |-> FALSE]>>]

WrappedKinds == {"coroutinefunction", "object"}
TypedBodies == {"add", "add3", "divide", "floordiv", "error"}

\* the parameters of fn that have a default value
Optional(fn) == IF fn.body = "add3" THEN {"c"} ELSE {}
TypedFns ==
    {AddFn, SyncDivideFn, FloorDivideFn, ErrorFn}
        \cup {DivideFn(w) : w \in WrappedKinds}

\* the values a caller sends for one argument
ArgVals == {IntVal(0), IntVal(2), TextVal}

\* the keyword mappings over the names in S
KwargsOver(S) == UNION {[D -> ArgVals] : D \in SUBSET S}

\* the keyword mappings a caller sends to fn: any of its parameters left
\* out or given, and possibly a name fn does not have
KwargsFor(fn) ==
    KwargsOver({fn.params[k].name : k \in 1..Len(fn.params)} \cup {"extra"})

\* one argument against its parameter: an int, within the constraint
ArgOk(p, val) == val.t = "int" /\ (p.gt0 => val.v > 0)

\* the input validation of validate_call: every parameter without a default
\* value given, no other name given, every value of its parameter's type
ValidateArgs(fn, kw) ==
    /\ \A k \in 1..Len(fn.params) :
          IF fn.params[k].name \in DOMAIN kw
          THEN ArgOk(fn.params[k], kw[fn.params[k].name])
          ELSE fn.params[k].name \in Optional(fn)
    /\ \A n \in DOMAIN kw : \E k \in 1..Len(fn.params) : fn.params[k].name = n

\* the body of the callable on validated arguments
TypedBody(fn, kw) ==
    LET p == kw[fn.params[1].name].v
        q == kw[fn.params[2].name].v
    IN  CASE fn.body = "error" -> [exc |-> "ValueError", value |-> NoneVal]
          [] fn.body = "add" -> [exc |-> "", value |-> IntVal(p + q)]
          [] fn.body = "add3" ->
                [exc |-> "",
                 value |-> IntVal(p + q + IF "c" \in DOMAIN kw THEN kw["c"].v ELSE 0)]
          [] fn.body = "divide" ->
                IF q = 0 THEN [exc |-> "ZeroDivisionError", value |-> NoneVal]
                ELSE [exc |-> "", value |-> FloatVal(p, q)]
          [] fn.body = "floordiv" ->
                IF q = 0 THEN [exc |-> "ZeroDivisionError", value |-> NoneVal]
                ELSE [exc |-> "", value |-> IntVal(p \div q)]

\* validate_return=True: the returned value against the return annotation
ValidateReturn(fn, val) ==
    IF val.t = fn.returns THEN [exc |-> "", value |-> val]
    ELSE [exc |-> "ValidationError", value |-> NoneVal]

\* the mutant: a wrapper that binds the arguments, runs the body, and only
\* then checks the values it was given
CompleteBodyFirst(fn, kw, check) ==
    IF DOMAIN kw # {fn.params[k].name : k \in 1..Len(fn.params)}
    THEN [exc |-> "ValidationError", value |-> NoneVal, ran |-> 0]
    ELSE IF ~ValidateArgs(fn, kw)
         THEN [exc |-> "ValidationError", value |-> NoneVal, ran |-> 1]
         ELSE LET b == TypedBody(fn, kw)
              IN  [exc |-> b.exc, value |-> b.value, ran |-> 1]

\* the wrapped call from the input validation on (check says whether the
\* validation is still to be done): validate, run the body, validate the
\* return value; ran counts the runs of the body
Complete(fn, kw, check) ==
    IF check /\ ~ValidateArgs(fn, kw)
    THEN [exc |-> "ValidationError", value |-> NoneVal, ran |-> 0]
    ELSE LET b == TypedBody(fn, kw)
         IN  IF b.exc # ""
             THEN [exc |-> b.exc, value |-> NoneVal, ran |-> 1]
             ELSE LET v == ValidateReturn(fn, b.value)
                  IN  [exc |-> v.exc, value |-> v.value, ran |-> 1]

NoCoro == [live |-> FALSE]

\* Function.__call__: return self._wrapped(*args, **kwargs), never awaited
\* here. For async def the caller gets a coroutine and no body has run.
Invoke(fn, kw) ==
    IF ~fn.is_async
    THEN LET r == Complete(fn, kw, TRUE)
         IN  [exc |-> r.exc, value |-> r.value, ran |-> r.ran, coro |-> NoCoro]
    ELSE IF fn.wrapped = "object" /\ ~ValidateArgs(fn, kw)
         THEN [exc |-> "ValidationError", value |-> NoneVal, ran |-> 0,
               coro |-> NoCoro]
         ELSE [exc |-> "", value |-> CoroVal, ran |-> 0,
               coro |-> [live |-> TRUE, fn |-> fn, kw |-> kw,
                         checked |-> fn.wrapped = "object"]]

\* await coroutine
Await(c) == Complete(c.fn, c.kw, ~c.checked)

\* function(**input): validation first, then the body; ran counts body runs
FunctionCall(fn, bag, fut) ==
    IF fn.body \in TypedBodies
    THEN LET r == Invoke(fn, bag)
         IN  [exc |-> r.exc, value |-> r.value, fut |-> fut, ran |-> r.ran]
    ELSE IF ~bag.ok
    THEN [exc |-> "ValidationError", value |-> NoneVal, fut |-> fut, ran |-> 0]
    ELSE LET b == Body(fn, bag.n, fut)
         IN  [exc |-> b.exc, value |-> b.value, fut |-> b.fut, ran |-> 1]

\* the lookup and invocation every adapter performs for one call
LookupAndCall(ts, fut, call) ==
    LET i == Lookup(ts, call.name)
    IN  IF i = 0
        THEN [exc |-> "ValueError", value |-> NoneVal, fut |-> fut, ran |-> 0]
        ELSE FunctionCall(ts[i], call.args, fut)

----------------------------------------------------------------------------
(* Dispatch: the three __call__ methods. Each yields                       *)
(* [raised, out, fut, ran]: the exception leaving __call__ ("" for none),  *)
(* the returned records, the future afterwards, the bodies run.            *)

AnthropicError(id) ==
    [type |-> "tool_result", tool_use_id |-> id,
     content |-> "An error occurred while calling the tool", is_error |-> TRUE]

\* the mutant: an except branch that only reports, and leaves the future alone
AnthropicCallNoRouting(ts, fut, tool_use) ==
    LET r == LookupAndCall(ts, fut, tool_use)
    IN  IF r.exc = ""
        THEN [raised |-> "", fut |-> r.fut, ran |-> r.ran,
              out |-> <<[type |-> "tool_result", tool_use_id |-> tool_use.id,
                         content |-> Str(r.value), is_error |-> FALSE]>>]
        ELSE [raised |-> "", fut |-> r.fut, ran |-> r.ran,
              out |-> <<AnthropicError(tool_use.id)>>]

\* the mutant: once the future holds a failure every later call is refused
AnthropicCallPoisoned(ts, fut, tool_use) ==
    LET r == LookupAndCall(ts, fut, tool_use)
    IN  IF r.exc = "" /\ fut.state # "exception"
        THEN [raised |-> "", fut |-> r.fut, ran |-> r.ran,
              out |-> <<[type |-> "tool_result", tool_use_id |-> tool_use.id,
                         content |-> Str(r.value), is_error |-> FALSE]>>]
        ELSE LET s == SetException(r.fut, r.exc)
             IN  [raised |-> "", fut |-> s.fut, ran |-> r.ran,
                  out |-> <<AnthropicError(tool_use.id)>>]

\* AnthropicTools.__call__(tool_use)
AnthropicCall(ts, fut, tool_use) ==
    LET r == LookupAndCall(ts, fut, tool_use)
    IN  IF r.exc = ""
        THEN [raised |-> "", fut |-> r.fut, ran |-> r.ran,
              out |-> <<[type |-> "tool_result", tool_use_id |-> tool_use.id,
                         content |-> Str(r.value), is_error |-> FALSE]>>]
        ELSE LET s == SetException(r.fut, r.exc)
             IN  IF s.raised # ""
                 THEN [raised |-> s.raised, fut |-> s.fut, ran |-> r.ran,
                       out |-> <<>>]
                 ELSE [raised |-> "", fut |-> s.fut, ran |-> r.ran,
                       out |-> <<AnthropicError(tool_use.id)>>]

\* the mutant: an output that does not say which call it answers
OpenAIOutputNoId(tool_call, result) ==
    [tool_call_id |-> "", output |-> Str(result)]

\* lines 49-52: the output of one call
OpenAIOutput(tool_call, result) ==
    [tool_call_id |-> tool_call.id, output |-> Str(result)]

\* OpenAITools.__call__(tool_calls), from position i with outputs so far
RECURSIVE OpenAICall(_, _, _, _, _, _)
OpenAICall(ts, fut, tool_calls, i, outputs, ran) ==
    IF i > Len(tool_calls)
    THEN [raised |-> "", fut |-> fut, ran |-> ran, out |-> outputs]
    ELSE LET r == LookupAndCall(ts, fut, tool_calls[i])
         IN  IF r.exc # ""
             THEN [raised |-> r.exc, fut |-> r.fut, ran |-> ran + r.ran,
                   out |-> <<>>]
             ELSE OpenAICall(ts, r.fut, tool_calls, i + 1,
                      Append(outputs, OpenAIOutput(tool_calls[i], r.value)),
                      ran + r.ran)

\* OllamaTools.__call__(tool_calls), from position i with outputs so far
RECURSIVE OllamaCall(_, _, _, _, _, _)
OllamaCall(ts, fut, tool_calls, i, outputs, ran) ==
    IF i > Len(tool_calls)
    THEN [raised |-> "", fut |-> fut, ran |-> ran, out |-> outputs]
    ELSE LET r == LookupAndCall(ts, fut, tool_calls[i])
         IN  IF r.exc # ""
             THEN [raised |-> r.exc, fut |-> r.fut, ran |-> ran + r.ran,
                   out |-> <<>>]
             ELSE OllamaCall(ts, r.fut, tool_calls, i + 1,
                      Append(outputs, r.value), ran + r.ran)

----------------------------------------------------------------------------
(* Rendering the tool list: the three __iter__ methods *)

\* function.input.model_json_schema(mode="validation"): a fresh mapping each
\* time; keys is the set of keys occurring anywhere in it
ModelJsonSchema(fn) ==
    [of |-> fn.name,
     keys |-> {"title", "type", "properties", "required", "x-order"}]

\* _process_parameters: drops the keys title and x-order at every level
ProcessParameters(schema) ==
    [schema EXCEPT !.keys = @ \ {"title", "x-order"}]

\* AnthropicTools.__iter__
AnthropicIter(ts) ==
    [i \in 1..Len(ts) |->
        [name |-> ts[i].name, description |-> ts[i].description,
         input_schema |-> ModelJsonSchema(ts[i])]]

\* OpenAITools.__iter__
OpenAIIter(ts) ==
    [i \in 1..Len(ts) |->
        [type |-> "function",
         function |->
            [name |-> ts[i].name, strict |-> TRUE,
             parameters |->
                ProcessParameters(
                    [ModelJsonSchema(ts[i]) EXCEPT
                        !.keys = @ \cup {"additionalProperties"}])]]]

\* OllamaTools.__iter__
OllamaIter(ts) ==
    [i \in 1..Len(ts) |->
        [type |-> "function",
         function |->
            [name |-> ts[i].name, description |-> ts[i].description,
             parameters |-> ModelJsonSchema(ts[i])]]]

----------------------------------------------------------------------------
(* The schema deriver: hype.function.input_and_output_types                 *)
(*                                                                         *)
(* A FieldInfo object is [has_default, description, extra]: description "" *)
(* is None, extra is the x-order of json_schema_extra, -1 for none.        *)
(* A parameter's default is "empty", a plain "value", or a "field": the    *)
(* FieldInfo object heap[ref], which other parameters may name as well.    *)

FieldRefs == {1, 2}
ParamNames == <<"x", "y", "z", "w">>

NoDefault == [kind |-> "empty", ref |-> 0]
ValueDefault == [kind |-> "value", ref |-> 0]
FieldDefault(i) == [kind |-> "field", ref |-> i]
Defaults == {NoDefault, ValueDefault} \cup {FieldDefault(i) : i \in FieldRefs}

\* the FieldInfo objects a caller can have made: Field(...) or Field(2), with
\* or without description=
UserFieldInfos ==
    {[has_default |-> d, description |-> t, extra |-> -1] :
        d \in BOOLEAN, t \in {"", "from field"}}

\* the return annotations: none, int, a BaseModel subclass, Annotated[int,
\* Field(description=...)], Annotated[int, Field(gt=0)], Annotated[int, "m"]
ReturnKinds ==
    {"missing", "int", "model", "annotated_described", "annotated_field",
     "annotated_other"}

\* the docstring's description of the parameter called name
ParamDoc(name) ==
    CASE name = "x" -> "doc of x"
      [] name = "y" -> "doc of y"
      [] name = "z" -> "doc of z"
      [] OTHER -> "doc of w"

\* Field(...) and Field(parameter.default): a new object each time
NewField(has_default) ==
    [has_default |-> has_default, description |-> "", extra |-> -1]

\* lines 105-113: set json_schema_extra, backfill the description
MarkAndDescribe(info, order, name, doc) ==
    LET marked == [info EXCEPT !.extra = order]
    IN  IF marked.description = "" /\ name \in doc.params
        THEN [marked EXCEPT !.description = ParamDoc(name)]
        ELSE marked

\* the loop over signature.parameters from position k: h is the heap so far,
\* defs the input_field_definitions so far (a definition holds the object
\* itself when it is new, and the reference when it is the caller's)
RECURSIVE FieldDefinitions(_, _, _, _, _)
FieldDefinitions(params, doc, h, k, defs) ==
    IF k > Len(params) THEN [heap |-> h, defs |-> defs]
    ELSE LET p == params[k]
             info == CASE p.default.kind = "empty" -> NewField(FALSE)
                       [] p.default.kind = "value" -> NewField(TRUE)
                       [] p.default.kind = "field" -> h[p.default.ref]
             done == MarkAndDescribe(info, k - 1, p.name, doc)
         IN  IF p.default.kind = "field"
             THEN FieldDefinitions(params, doc,
                      [h EXCEPT ![p.default.ref] = done], k + 1,
                      Append(defs, [name |-> p.name, ref |-> p.default.ref,
                                    info |-> done]))
             ELSE FieldDefinitions(params, doc, h, k + 1,
                      Append(defs, [name |-> p.name, ref |-> 0, info |-> done]))

\* create_model("Input", **input_field_definitions): runs after the loop, on
\* the objects as the loop left them
CreateModel(defs, h) ==
    [k \in 1..Len(defs) |->
        LET info == IF defs[k].ref = 0 THEN defs[k].info ELSE h[defs[k].ref]
        IN  [name |-> defs[k].name,
             required |-> ~info.has_default,
             description |-> info.description,
             order |-> info.extra]]

\* the type a return annotation stands for once get_type_hints and get_args
\* have stripped Annotated; no annotation bounds the TypeVar by None, which
\* is any value
BaseType(ret) ==
    CASE ret = "missing" -> "any"
      [] ret = "model" -> "model"
      [] OTHER -> "int"

\* the mutant: every return type is wrapped, a record type too
OutputTypeAlwaysRoot(ret, doc) ==
    [kind |-> "root", fields |-> <<"root">>, type |-> BaseType(ret),
     description |-> doc.returns]

\* lines 118-146: the Output type
OutputType(ret, doc) ==
    IF ret = "model"
    THEN [kind |-> "verbatim", fields |-> <<>>, type |-> BaseType(ret),
          description |-> ""]
    ELSE [kind |-> "root", fields |-> <<"root">>, type |-> BaseType(ret),
          description |->
             CASE ret = "annotated_described" -> "from annotation"
               [] ret \in {"annotated_field", "annotated_other"} -> ""
               [] OTHER -> doc.returns]

\* input_and_output_types(func, docstring)
InputAndOutputTypes(f, h) ==
    LET r == FieldDefinitions(f.params, f.doc, h, 1, <<>>)
    IN  [heap |-> r.heap,
         input |-> CreateModel(r.defs, r.heap),
         output |-> OutputType(f.ret, f.doc)]

\* the callables: at most MaxParams parameters, named in order
Callables ==
    {[params |-> [k \in 1..Len(ds) |-> [name |-> ParamNames[k], default |-> ds[k]]],
      doc |-> [params |-> dp, returns |-> dr],
      ret |-> rk] :
        ds \in UNION {[1..n -> Defaults] : n \in 0..MaxParams},
        dp \in SUBSET {ParamNames[k] : k \in 1..MaxParams},
        dr \in {"", "doc of return"},
        rk \in ReturnKinds}

NotDerived == [done |-> FALSE, input |-> <<>>,
               output |-> [kind |-> "none", fields |-> <<>>, type |-> "",
                           description |-> ""]]

\* nothing handed to wrap
NothingWrapped ==
    /\ heap = [i \in FieldRefs |-> NewField(FALSE)]
    /\ func = [params |-> <<>>, doc |-> [params |-> {}, returns |-> ""],
               ret |-> "missing"]
    /\ derived = NotDerived

\* no descriptor invoked
NoInvoke == [op |-> "none"]
\* no request handled
NoRpc == [op |-> "none"]
\* no command run
NoCli == [op |-> "none"]
\* no lookup made
NoLookup == [op |-> "none"]

\* the position of the lifespan: "serving" until shutdown, then inside
\* wait_until_empty ("check" at the loop test, "wait" inside asyncio.wait
\* for the tasks of `waiting`), "stopped" once it has returned
Serving == [pc |-> "serving", waiting |-> {}]

NothingServed ==
    /\ registry = {}
    /\ atasks = <<>>
    /\ http = <<>>
    /\ lifespan = Serving
    /\ looked = NoLookup

\* a batch nobody has made
NoBatch == [jobs |-> <<>>, canceled |-> FALSE]
\* nothing read from a batch
NoReport == [op |-> "none"]
NothingBatched == batch = NoBatch /\ report = NoReport

NothingCalled ==
    /\ inv = NoInvoke
    /\ functions = <<>>
    /\ rpc = NoRpc
    /\ stdin = [lines |-> <<>>, pos |-> 0, after |-> "eof"]
    /\ stdout = <<>>
    /\ yielded = <<>>
    /\ running = FALSE
    /\ cli = NoCli
    /\ NothingServed
    /\ NothingBatched

\* Function.validate(value): derives the types once
Wrap ==
    /\ ~derived.done
    /\ LET r == InputAndOutputTypes(func, heap)
       IN  /\ heap' = r.heap
           /\ derived' = [done |-> TRUE, input |-> r.input, output |-> r.output]
    /\ UNCHANGED <<func, toolVars, callVars>>

\* a callable about to be wrapped, with the FieldInfo objects its defaults name
InitDerive ==
    /\ phase = "new"
    /\ adapter = "anthropic"
    /\ supplied = <<>>
    /\ resultType = "None"
    /\ tools = <<>>
    /\ future = NoFuture
    /\ last = [op |-> "init", calls |-> <<>>, raised |-> "", out |-> <<>>, ran |-> 0]
    /\ func \in Callables
    /\ heap \in [FieldRefs -> UserFieldInfos]
    /\ \A i \in FieldRefs :
          (\A k \in 1..Len(func.params) : func.params[k].default # FieldDefault(i))
             => heap[i] = NewField(FALSE)
    /\ derived = NotDerived
    /\ NothingCalled

SpecDerive == InitDerive /\ [][Wrap]_vars

----------------------------------------------------------------------------
(* Inputs *)

Adapters == {"anthropic", "openai", "ollama"}
ResultTypes == {"None", "int"}
CallNames == {"is_prime", "calculate", "__return__", "missing"}
CallIds == <<"call_1", "call_2", "call_3", "call_4">>

\* the sequences over S of length at most n
SeqsUpTo(S, n) == UNION {[1..k -> S] : k \in 0..n}

\* the (name, arguments) pairs a provider sends: every outcome of calculate
\* and of the capture tool, one good call of is_prime, and one call of a name
\* no registry has (a lookup miss never reads the arguments)
CallShapes ==
    {c \in CallNames \X Bags :
        /\ c[1] = "missing" => ~c[2].ok
        /\ c[1] = "is_prime" => c[2].ok /\ c[2].n # 0}

\* a provider's tool call
Call(id, name, bag) == [id |-> id, name |-> name, args |-> bag]

\* the batches of at most MaxBatch calls; the provider numbers the calls of a
\* batch, so the ids of a batch are distinct
Batches ==
    {[i \in 1..Len(b) |-> Call(CallIds[i], b[i][1], b[i][2])] :
        b \in SeqsUpTo(CallShapes, MaxBatch)}

NoOp == [op |-> "init", calls |-> <<>>, raised |-> "", out |-> <<>>, ran |-> 0]

----------------------------------------------------------------------------
(* Actions *)

\* the mutant: a dispatch that raised drops the tool it was calling
RegistryDropsFailedTool ==
    LET failed(e) ==
            /\ last'.op = "call"
            /\ last'.raised # ""
            /\ \E i \in 1..Len(last'.calls) : last'.calls[i].name = e.name
        Keep(e) == ~failed(e)
    IN  tools' = SelectSeq(tools, Keep)

\* no method but __init__ assigns self._tools or an entry of it
RegistryUnchanged == tools' = tools

\* SomeTools(functions, result_type)
Construct ==
    /\ phase = "new"
    /\ \E kind \in Adapters, fs \in SeqsUpTo(FnPool, MaxFuncs),
          singlePass \in BOOLEAN, rt \in ResultTypes :
          LET r == NewTools(kind, fs, singlePass, rt)
          IN  /\ phase' = IF r.exc = "" THEN "ready" ELSE "failed"
              /\ adapter' = kind
              /\ supplied' = fs
              /\ resultType' = rt
              /\ tools' = r.tools
              /\ future' = r.future
              /\ last' = [NoOp EXCEPT !.op = "new", !.raised = r.exc]
              /\ UNCHANGED <<deriveVars, callVars>>

\* list(tools) on an AnthropicTools
IterAnthropic ==
    /\ phase = "ready" /\ adapter = "anthropic"
    /\ last' = [NoOp EXCEPT !.op = "iter", !.out = AnthropicIter(tools)]
    /\ RegistryUnchanged
    /\ UNCHANGED <<phase, adapter, supplied, resultType, future, deriveVars,
                 callVars>>

\* list(tools) on an OpenAITools
IterOpenAI ==
    /\ phase = "ready" /\ adapter = "openai"
    /\ last' = [NoOp EXCEPT !.op = "iter", !.out = OpenAIIter(tools)]
    /\ RegistryUnchanged
    /\ UNCHANGED <<phase, adapter, supplied, resultType, future, deriveVars,
                 callVars>>

\* list(tools) on an OllamaTools
IterOllama ==
    /\ phase = "ready" /\ adapter = "ollama"
    /\ last' = [NoOp EXCEPT !.op = "iter", !.out = OllamaIter(tools)]
    /\ RegistryUnchanged
    /\ UNCHANGED <<phase, adapter, supplied, resultType, future, deriveVars,
                 callVars>>

\* the state after a dispatch that gave r for the calls cs
Dispatched(cs, r) ==
    /\ future' = r.fut
    /\ last' = [op |-> "call", calls |-> cs, raised |-> r.raised,
                out |-> r.out, ran |-> r.ran]
    /\ RegistryUnchanged
    /\ UNCHANGED <<phase, adapter, supplied, resultType, deriveVars, callVars>>

\* tools(tool_use) on an AnthropicTools
CallAnthropic ==
    /\ phase = "ready" /\ adapter = "anthropic"
    /\ \E id \in {CallIds[1], CallIds[2]}, c \in CallShapes :
          Dispatched(<<Call(id, c[1], c[2])>>,
                     AnthropicCall(tools, future, Call(id, c[1], c[2])))

\* tools(tool_calls) on an OpenAITools
CallOpenAI ==
    /\ phase = "ready" /\ adapter = "openai"
    /\ \E cs \in Batches :
          Dispatched(cs, OpenAICall(tools, future, cs, 1, <<>>, 0))

\* tools(tool_calls) on an OllamaTools
CallOllama ==
    /\ phase = "ready" /\ adapter = "ollama"
    /\ \E cs \in Batches :
          Dispatched(cs, OllamaCall(tools, future, cs, 1, <<>>, 0))

----------------------------------------------------------------------------
(* Specifications *)

\* before any registry exists
InitNew ==
    /\ phase = "new"
    /\ adapter = "anthropic"
    /\ supplied = <<>>
    /\ resultType = "None"
    /\ tools = <<>>
    /\ future = NoFuture
    /\ last = NoOp
    /\ NothingWrapped
    /\ NothingCalled

\* construction alone, over every list of functions
SpecInit == InitNew /\ [][Construct]_vars

\* a registry of each adapter, built from [calculate, is_prime] as
\* tests/test_tools.py builds it, with and without a result type
Init ==
    \E kind \in Adapters, rt \in ResultTypes :
        LET r == NewTools(kind, <<CalculateFn, IsPrimeFn>>, FALSE, rt)
        IN  /\ phase = "ready"
            /\ adapter = kind
            /\ supplied = <<CalculateFn, IsPrimeFn>>
            /\ resultType = rt
            /\ tools = r.tools
            /\ future = r.future
            /\ last = NoOp
            /\ NothingWrapped
            /\ NothingCalled

Next ==
    \/ IterAnthropic
    \/ IterOpenAI
    \/ IterOllama
    \/ CallAnthropic
    \/ CallOpenAI
    \/ CallOllama

Spec == Init /\ [][Next]_vars

----------------------------------------------------------------------------
(* Typed and asynchronous callables, invoked directly and through adapters *)

\* the tool calls a provider sends to a registry of add and divide: a good
\* call of each, a division by zero, and a call whose argument is no number
TypedCallShapes ==
    {<<"add", [n \in {"a", "b"} |-> IF n = "a" THEN IntVal(2) ELSE IntVal(2)]>>,
     <<"divide", [n \in {"a", "b"} |-> IF n = "a" THEN IntVal(2) ELSE IntVal(2)]>>,
     <<"divide", [n \in {"a", "b"} |-> IF n = "a" THEN IntVal(2) ELSE IntVal(0)]>>,
     <<"divide", [n \in {"a", "b"} |-> IF n = "a" THEN IntVal(2) ELSE TextVal]>>}

TypedBatches ==
    {[i \in 1..Len(b) |-> Call(CallIds[i], b[i][1], b[i][2])] :
        b \in SeqsUpTo(TypedCallShapes, MaxBatch)}

\* the state after function(**kwargs) by a caller that awaits what it gets
\* when that is a coroutine: `await function(**kwargs)`
Invoked(fn, kw) ==
    LET c == Invoke(fn, kw)
        a == IF c.coro.live THEN Await(c.coro)
             ELSE [exc |-> c.exc, value |-> c.value, ran |-> 0]
    IN  /\ inv' = [op |-> "invoke", fn |-> fn, kw |-> kw,
                   returned |-> c.value,
                   exc |-> a.exc, value |-> a.value,
                   ran |-> c.ran + a.ran,
                   awaits |-> IF c.coro.live THEN 1 ELSE 0]
        /\ UNCHANGED <<toolVars, deriveVars, rpcVars, stdioVars, cli, serverVars, jobVars>>

\* a descriptor invoked with any keyword mapping
DirectInvoke ==
    \E fn \in TypedFns : \E kw \in KwargsFor(fn) : Invoked(fn, kw)

\* one of the functions handed to the registry, invoked by the user
InvokeSupplied ==
    \E i \in 1..Len(supplied), c \in TypedCallShapes :
        /\ c[1] = supplied[i].name
        /\ Invoked(supplied[i], c[2])

\* tools(tool_use) on an AnthropicTools holding add and divide
TypedCallAnthropic ==
    /\ phase = "ready" /\ adapter = "anthropic"
    /\ \E id \in {CallIds[1], CallIds[2]}, c \in TypedCallShapes :
          Dispatched(<<Call(id, c[1], c[2])>>,
                     AnthropicCall(tools, future, Call(id, c[1], c[2])))

\* tools(tool_calls) on an OpenAITools holding add and divide
TypedCallOpenAI ==
    /\ phase = "ready" /\ adapter = "openai"
    /\ \E cs \in TypedBatches :
          Dispatched(cs, OpenAICall(tools, future, cs, 1, <<>>, 0))

\* tools(tool_calls) on an OllamaTools holding add and divide
TypedCallOllama ==
    /\ phase = "ready" /\ adapter = "ollama"
    /\ \E cs \in TypedBatches :
          Dispatched(cs, OllamaCall(tools, future, cs, 1, <<>>, 0))

\* a registry of each adapter built from [add, divide], divide being async
\* def under either kind of wrapper
InitAsync ==
    \E kind \in Adapters, rt \in ResultTypes, w \in WrappedKinds :
        LET r == NewTools(kind, <<AddFn, DivideFn(w)>>, FALSE, rt)
        IN  /\ phase = "ready"
            /\ adapter = kind
            /\ supplied = <<AddFn, DivideFn(w)>>
            /\ resultType = rt
            /\ tools = r.tools
            /\ future = r.future
            /\ last = NoOp
            /\ NothingWrapped
            /\ NothingCalled

NextAsync ==
    \/ InvokeSupplied
    \/ TypedCallAnthropic
    \/ TypedCallOpenAI
    \/ TypedCallOllama

SpecAsync == InitAsync /\ [][NextAsync]_vars

\* descriptors invoked directly, no registry around
SpecInvoke == InitNew /\ [][DirectInvoke]_vars

----------------------------------------------------------------------------
(* The JSON-RPC handler: hype.mcp.jsonrpc                                  *)
(*                                                                         *)
(* A request is [method, params, id], params being [name, args_kind,       *)
(* arguments]: name "" is a params dict without "name"; args_kind says     *)
(* whether "arguments" is absent, a dict, or something that is no dict.    *)
(* A response is [result, error, id]; NoResult and NoError stand for None. *)

PARSE_ERROR == -32700
INVALID_REQUEST == -32600
METHOD_NOT_FOUND == -32601
INVALID_PARAMS == -32602
INTERNAL_ERROR == -32603

NoResult == [kind |-> "none"]
NoError == [code |-> 0]

\* the mutant: an error response that loses the request's id
ErrorResponseNullId(code, id) ==
    [result |-> NoResult, error |-> [code |-> code], id |-> NoneVal]

\* JsonRpcResponse(result=..., id=...)
ResultResponse(result, id) == [result |-> result, error |-> NoError, id |-> id]
\* JsonRpcResponse(error=e.to_error(), id=...)
ErrorResponse(code, id) ==
    [result |-> NoResult, error |-> [code |-> code], id |-> id]

\* the empty dict
EmptyKw == [n \in {} |-> NoneVal]

\* CallToolRequest(**request.params): name is required and a string,
\* arguments is a dict and defaults to the empty one
CallToolRequest(params) ==
    IF params.name = "" \/ params.args_kind = "other"
    THEN [exc |-> "ValidationError", name |-> "", arguments |-> EmptyKw]
    ELSE [exc |-> "", name |-> params.name,
          arguments |-> IF params.args_kind = "absent" THEN EmptyKw
                        ELSE params.arguments]

\* isinstance(e, (ValueError, TypeError)); pydantic's ValidationError is a
\* ValueError
IsValueOrTypeError(exc) == exc \in {"ValueError", "TypeError", "ValidationError"}

\* what the call gave, no await made
Unawaited(c) == [exc |-> c.exc, value |-> c.value, ran |-> c.ran, awaits |-> 0]

\* what the call gave once its coroutine was awaited and gave a
AwaitedOnce(c, a) ==
    [exc |-> a.exc, value |-> a.value, ran |-> c.ran + a.ran, awaits |-> 1]

\* the mutant: the call without either await
CallToolNoAwait(fn, c) == Unawaited(c)

\* lines 128-133, c being what function(**params.arguments) gave: awaited
\* when the wrapper is a coroutine function or when what it returned is a
\* coroutine
CallTool(fn, c) ==
    IF fn.is_async /\ fn.wrapped = "coroutinefunction"
    THEN AwaitedOnce(c, Await(c.coro))
    ELSE IF c.exc = "" /\ c.coro.live
         THEN AwaitedOnce(c, Await(c.coro))
         ELSE Unawaited(c)

\* lines 135-152: the response to a call that gave r
ToolResponse(r, id) ==
    [response |->
        IF r.exc = ""
        THEN ResultResponse([kind |-> "content", type |-> "text",
                             text |-> IF r.value = NoneVal THEN ""
                                      ELSE Str(r.value)], id)
        ELSE IF IsValueOrTypeError(r.exc)
             THEN ErrorResponse(INVALID_PARAMS, id)
             ELSE ErrorResponse(INTERNAL_ERROR, id),
     ran |-> r.ran, awaits |-> r.awaits]

\* a response made without calling a tool
Answered(response) == [response |-> response, ran |-> 0, awaits |-> 0]

\* lines 122-152: the tools/call of the parsed params p
CallNamedTool(p, id, fs) ==
    IF Lookup(fs, p.name) = 0
    THEN Answered(ErrorResponse(METHOD_NOT_FOUND, id))
    ELSE ToolResponse(
            CallTool(fs[Lookup(fs, p.name)],
                     Invoke(fs[Lookup(fs, p.name)], p.arguments)),
            id)

\* the entry of tools/list for f
ToolEntry(f) ==
    [name |-> f.name, description |-> f.description,
     parameters |-> {f.params[k].name : k \in 1..Len(f.params)}]

\* handle_jsonrpc_request(request, functions): the response, with the runs
\* of tool bodies and the awaits it took
HandleJsonRpcRequest(request, fs) ==
    CASE request.method = "tools/list" ->
            Answered(ResultResponse(
                        [kind |-> "tools",
                         tools |-> [i \in 1..Len(fs) |-> ToolEntry(fs[i])]],
                        request.id))
      [] request.method = "tools/call" ->
            IF CallToolRequest(request.params).exc # ""
            THEN Answered(ErrorResponse(INVALID_PARAMS, request.id))
            ELSE CallNamedTool(CallToolRequest(request.params), request.id, fs)
      [] OTHER -> Answered(ErrorResponse(METHOD_NOT_FOUND, request.id))

\* the ids of a request: an integer, a string, null
RequestIds == {IntVal(1), TextVal, NoneVal}

NoParams == [name |-> "", args_kind |-> "absent", arguments |-> EmptyKw]

\* the params of a tools/call: with or without a name (of a registered tool
\* or not), with arguments absent, no dict, or a keyword mapping over the
\* parameter names of the tools
CallParams ==
    {[name |-> n, args_kind |-> k, arguments |-> a] :
        n \in {"", "add", "divide", "error_func", "missing"},
        k \in {"absent", "other"}, a \in {EmptyKw}}
    \cup
    {[name |-> n, args_kind |-> "dict", arguments |-> a] :
        n \in {"", "add", "divide", "error_func", "missing"},
        a \in KwargsOver({"a", "b"}) \cup KwargsOver({"a", "x"})}

Requests ==
    {[method |-> m, params |-> NoParams, id |-> i] :
        m \in {"tools/list", "unknown"}, i \in RequestIds}
    \cup
    {[method |-> "tools/call", params |-> p, id |-> i] :
        p \in CallParams, i \in RequestIds}

\* await handle_jsonrpc_request(request, functions)
HandleRequest ==
    /\ \E request \in Requests :
          LET h == HandleJsonRpcRequest(request, functions)
          IN  rpc' = [op |-> "handle", request |-> request,
                      response |-> h.response, ran |-> h.ran,
                      awaits |-> h.awaits]
    /\ UNCHANGED <<toolVars, deriveVars, inv, functions, stdioVars, cli,
                 serverVars, jobVars>>

\* a server over [add, divide, error_func], divide being async def under
\* either kind of wrapper
InitRpc ==
    /\ phase = "new"
    /\ adapter = "anthropic"
    /\ supplied = <<>>
    /\ resultType = "None"
    /\ tools = <<>>
    /\ future = NoFuture
    /\ last = NoOp
    /\ NothingWrapped
    /\ inv = NoInvoke
    /\ \E w \in WrappedKinds : functions = <<AddFn, DivideFn(w), ErrorFn>>
    /\ rpc = NoRpc
    /\ stdin = [lines |-> <<>>, pos |-> 0, after |-> "eof"]
    /\ stdout = <<>>
    /\ yielded = <<>>
    /\ running = FALSE
    /\ cli = NoCli
    /\ NothingServed
    /\ NothingBatched

SpecRpc == InitRpc /\ [][HandleRequest]_vars

----------------------------------------------------------------------------
(* The stdio handler: hype.mcp.stdio.create_mcp_stdio_handler              *)
(*                                                                         *)
(* The input stream is [lines, pos]: what its successive readline calls    *)
(* give, how many of them have been made, and what readline does past the  *)
(* last line: after is "eof" when it gives "" (end of input) and "closed"  *)
(* when it raises ValueError, as every read of a closed stream does.       *)
(* A line is [kind, request]:                                              *)
(*   "blank"       only whitespace                                         *)
(*   "garbage"     text that is not JSON                                   *)
(*   "bytes"       a bytes line (binary stream) that json.loads cannot     *)
(*                 decode                                                  *)
(*   "undecodable" readline itself raises UnicodeDecodeError (text stream) *)
(*   "notrequest"  JSON that the JsonRpcRequest constructor refuses        *)
(*   "request"     the JSON of the request                                 *)

Line(kind) == [kind |-> kind, request |-> NoRpc]
RequestLine(request) == [kind |-> "request", request |-> request]

\* the requests a client writes: a list, a good call, a failing call, an
\* unknown method, with the three kinds of id
StdioRequests ==
    {[method |-> "tools/list", params |-> NoParams, id |-> IntVal(1)],
     [method |-> "tools/call", id |-> TextVal,
      params |-> [name |-> "add", args_kind |-> "dict",
                  arguments |-> [n \in {"a", "b"} |-> IntVal(2)]]],
     [method |-> "tools/call", id |-> NoneVal,
      params |-> [name |-> "divide", args_kind |-> "dict",
                  arguments |-> [n \in {"a", "b"} |->
                                    IF n = "a" THEN IntVal(2) ELSE IntVal(0)]]],
     [method |-> "unknown", params |-> NoParams, id |-> IntVal(1)]}

StdioLines ==
    {Line(k) : k \in {"blank", "garbage", "bytes", "undecodable", "notrequest"}}
        \cup {RequestLine(q) : q \in StdioRequests}

\* lines 43-88 for one line that is not blank: the response the iteration
\* builds. The inner except takes JSONDecodeError and UnicodeDecodeError of
\* the parse; the outer except Exception takes the rest with request = None
LineResponse(line, fs) ==
    CASE line.kind \in {"garbage", "bytes"} -> ErrorResponse(PARSE_ERROR, NoneVal)
      [] line.kind = "undecodable" -> ErrorResponse(PARSE_ERROR, NoneVal)
      [] line.kind = "notrequest" -> ErrorResponse(INTERNAL_ERROR, NoneVal)
      [] line.kind = "request" -> HandleJsonRpcRequest(line.request, fs).response

\* the mutant: the response is yielded first and written on resumption
EmitYieldFirst(out, ys, response) ==
    [stdout |-> out, yielded |-> Append(ys, response)]

\* _write_response(response, output_stream), then yield response: the
\* streams when the generator is suspended at the yield
Emit(out, ys, response) ==
    [stdout |-> Append(out, response), yielded |-> Append(ys, response)]

\* the while loop from readline number pos + 1 up to the next yield, or to
\* the break at end of input. A readline that raises ValueError is taken by
\* `except Exception` with request = None, and the loop goes on.
RECURSIVE RunToYield(_, _, _, _, _, _)
RunToYield(lines, pos, after, out, ys, fs) ==
    IF pos >= Len(lines)
    THEN IF after = "eof"
         THEN [pos |-> pos, stdout |-> out, yielded |-> ys, running |-> FALSE]
         ELSE LET e == Emit(out, ys, ErrorResponse(INTERNAL_ERROR, NoneVal))
              IN  [pos |-> pos, stdout |-> e.stdout, yielded |-> e.yielded,
                   running |-> TRUE]
    ELSE IF lines[pos + 1].kind = "blank"
         THEN RunToYield(lines, pos + 1, after, out, ys, fs)
         ELSE LET e == Emit(out, ys, LineResponse(lines[pos + 1], fs))
              IN  [pos |-> pos + 1, stdout |-> e.stdout, yielded |-> e.yielded,
                   running |-> TRUE]

\* the responses followed on one stream
MaxResponses == MaxLines + 2

\* the consumer asks the generator for its next response
StdioNext ==
    /\ running
    /\ Len(stdout) < MaxResponses
    /\ LET r == RunToYield(stdin.lines, stdin.pos, stdin.after, stdout, yielded,
                           functions)
       IN  /\ stdin' = [stdin EXCEPT !.pos = r.pos]
           /\ stdout' = r.stdout
           /\ yielded' = r.yielded
           /\ running' = r.running
    /\ UNCHANGED <<toolVars, deriveVars, inv, rpcVars, cli, serverVars, jobVars>>

\* a handler over [add, divide, error_func] on a stream of at most MaxLines
\* lines, not yet started
InitStdio ==
    /\ phase = "new"
    /\ adapter = "anthropic"
    /\ supplied = <<>>
    /\ resultType = "None"
    /\ tools = <<>>
    /\ future = NoFuture
    /\ last = NoOp
    /\ NothingWrapped
    /\ inv = NoInvoke
    /\ \E w \in WrappedKinds : functions = <<AddFn, DivideFn(w), ErrorFn>>
    /\ rpc = NoRpc
    /\ \E ls \in SeqsUpTo(StdioLines, MaxLines) :
          stdin = [lines |-> ls, pos |-> 0, after |-> "eof"]
    /\ stdout = <<>>
    /\ yielded = <<>>
    /\ running = TRUE
    /\ cli = NoCli
    /\ NothingServed
    /\ NothingBatched

SpecStdio == InitStdio /\ [][StdioNext]_vars

\* the same handler on a stream that ends, or whose reads fail from some
\* point on (a closed stream)
InitStdioAny ==
    /\ phase = "new"
    /\ adapter = "anthropic"
    /\ supplied = <<>>
    /\ resultType = "None"
    /\ tools = <<>>
    /\ future = NoFuture
    /\ last = NoOp
    /\ NothingWrapped
    /\ inv = NoInvoke
    /\ \E w \in WrappedKinds : functions = <<AddFn, DivideFn(w), ErrorFn>>
    /\ rpc = NoRpc
    /\ \E ls \in SeqsUpTo(StdioLines, MaxLines), a \in {"eof", "closed"} :
          stdin = [lines |-> ls, pos |-> 0, after |-> a]
    /\ stdout = <<>>
    /\ yielded = <<>>
    /\ running = TRUE
    /\ cli = NoCli
    /\ NothingServed
    /\ NothingBatched

SpecStdioAny == InitStdioAny /\ [][StdioNext]_vars

----------------------------------------------------------------------------
(* The CLI: hype.cli.commands.run.FunctionCommand.invoke_function          *)

\* apply_defaults(input_data): the schema's defaults, overridden by the input
ApplyDefaults(fn, input) ==
    [n \in DOMAIN input \cup Optional(fn) |->
        IF n \in DOMAIN input THEN input[n] ELSE IntVal(0)]

\* lines 282-293: the loop over the inputs from position i; results are the
\* results kept for the output file, echoed the lines written to stdout.
\* An exception of self.function(**params) leaves the loop: a TypeError as a
\* ClickException, any other through the outer except as a ClickException
RECURSIVE RunInputs(_, _, _, _, _, _)
RunInputs(fn, inputs, i, to_file, results, echoed) ==
    IF i > Len(inputs)
    THEN [exc |-> "", results |-> results, echoed |-> echoed]
    ELSE LET r == Invoke(fn, ApplyDefaults(fn, inputs[i]))
         IN  IF r.exc # ""
             THEN [exc |-> "ClickException", results |-> results,
                   echoed |-> echoed]
             ELSE IF to_file
                  THEN RunInputs(fn, inputs, i + 1, to_file,
                                 Append(results, r.value), echoed)
                  ELSE RunInputs(fn, inputs, i + 1, to_file, results,
                                 Append(echoed, r.value))

\* invoke_function with --input: the exception that ends the command ("" for
\* none), the entries written to the output file and to stdout; the file
\* is written after the loop, when there are results
InvokeFunction(fn, inputs, to_file) ==
    LET r == RunInputs(fn, inputs, 1, to_file, <<>>, <<>>)
    IN  [exc |-> r.exc,
         file |-> IF r.exc = "" /\ to_file THEN r.results ELSE <<>>,
         echoed |-> r.echoed]

\* hype run MODULE add --input FILE [--output FILE]: one run of the command
RunCommand ==
    /\ cli = NoCli
    /\ \E inputs \in SeqsUpTo(KwargsOver({"a", "b"}), MaxInputs), to_file \in BOOLEAN :
          /\ Len(inputs) >= 1
          /\ LET r == InvokeFunction(CliAddFn, inputs, to_file)
             IN  cli' = [op |-> "batch", fn |-> CliAddFn, inputs |-> inputs,
                         to_file |-> to_file, exc |-> r.exc, file |-> r.file,
                         echoed |-> r.echoed]
    /\ UNCHANGED <<toolVars, deriveVars, inv, rpcVars, stdioVars, serverVars,
                 jobVars>>

SpecCli == InitNew /\ [][RunCommand]_vars

----------------------------------------------------------------------------
(* Tracked tasks: hype.task.Tasks and the FastAPI application of hype.http *)
(*                                                                         *)
(* atasks is the sequence of asyncio tasks created so far, each            *)
(* [state, must_cancel, callbacks, pops]: state is "running", "result",    *)
(* "exception" or "cancelled"; must_cancel says cancel() was called on the *)
(* running task; callbacks says the task is done and its done callbacks    *)
(* are scheduled but have not run; pops counts the runs of the callback    *)
(* that Tasks.defer added. registry is Tasks._tasks, a set of              *)
(* [id, task] entries. An id is [t, n]: t is "UUID" for what uuid4() gave  *)
(* and "str" for a string, n tells the values apart.                       *)

\* uuid4(): the k-th id handed out
Uuid(k) == [t |-> "UUID", n |-> k]

\* str(id), as the f-string of the Location header formats it
StrOf(id) == [t |-> "str", n |-> id.n]

NewTask ==
    [state |-> "running", must_cancel |-> FALSE, callbacks |-> FALSE, pops |-> 0]

Done(task) == task.state # "running"

\* Tasks.get(id): self._tasks.get(id), 0 for None. A dict finds a key that
\* is equal to the one given, and no str is equal to a UUID.
Get(reg, id) ==
    IF \E e \in reg : e.id = id
    THEN (CHOOSE e \in reg : e.id = id).task
    ELSE 0

\* the mutant: a done callback that leaves the entry in place
PopKeeps(reg, id) == reg

\* self._tasks.pop(id)
Pop(reg, id) == {e \in reg : e.id # id}

\* task.cancel(): asks a running task to cancel, does nothing to a done one
Cancel(ts, n) ==
    IF Done(ts[n]) THEN ts ELSE [ts EXCEPT ![n].must_cancel = TRUE]

\* Tasks.defer(task) on a task just created: lines 12-15
Defer ==
    /\ lifespan.pc # "stopped"
    /\ Len(atasks) < MaxTasks
    /\ atasks' = Append(atasks, NewTask)
    /\ registry' = registry \cup
                      {[id |-> Uuid(Len(atasks) + 1), task |-> Len(atasks) + 1]}
    /\ UNCHANGED <<restVars, http, lifespan, looked>>

\* a running task comes to its end: cancelled when cancel() was called on
\* it, else with a result or an exception; its done callbacks are scheduled
TaskFinishes ==
    \E n \in 1..Len(atasks), outcome \in {"result", "exception"} :
        /\ ~Done(atasks[n])
        /\ atasks' = [atasks EXCEPT
                         ![n].state = IF atasks[n].must_cancel THEN "cancelled"
                                      ELSE outcome,
                         ![n].callbacks = TRUE]
        /\ UNCHANGED <<restVars, registry, http, lifespan, looked>>

\* what `return done.pop().result()` gives for a done task: the result, or
\* the exception of the task raised
Responded(call, task) ==
    [call EXCEPT !.pc = "done",
                 !.status = IF task.state = "result" THEN 200 ELSE 500,
                 !.body = task.state]

\* the mutant: a 202 response that does not say where the task is
AcceptedNoLocation(call) == [call EXCEPT !.pc = "done", !.status = 202]

\* lines 99-102: the 202 response
Accepted(call) ==
    [call EXCEPT !.pc = "done", !.status = 202, !.location = StrOf(call.id)]

\* the event loop runs the done callbacks of a finished task in the order
\* they were added: the pop of Tasks.defer, then the wake-up of whoever
\* waits for the task in asyncio.wait (the endpoint that created it)
RunDoneCallbacks ==
    \E n \in 1..Len(atasks) :
        /\ atasks[n].callbacks
        /\ atasks' = [atasks EXCEPT
                         ![n].callbacks = FALSE,
                         ![n].pops = IF Get(registry, Uuid(n)) = 0 THEN @
                                     ELSE @ + 1]
        /\ registry' = Pop(registry, Uuid(n))
        /\ http' = IF n \in DOMAIN http /\ http[n].pc = "wait"
                   THEN [http EXCEPT ![n] = Responded(http[n], atasks[n])]
                   ELSE http
        /\ UNCHANGED <<restVars, lifespan, looked>>

\* Tasks.get(id)
TasksGet ==
    /\ \E k \in 1..MaxTasks :
          looked' = [op |-> "get", id |-> Uuid(k), found |-> Get(registry, Uuid(k))]
    /\ UNCHANGED <<restVars, registry, atasks, http, lifespan>>

\* Tasks.cancel(id)
TasksCancel ==
    /\ \E k \in 1..MaxTasks :
          LET n == Get(registry, Uuid(k))
          IN  /\ looked' = [op |-> "cancel", id |-> Uuid(k), found |-> n]
              /\ atasks' = IF n = 0 THEN atasks ELSE Cancel(atasks, n)
    /\ UNCHANGED <<restVars, registry, http, lifespan>>

\* the lifespan leaves its yield, or a caller calls wait_until_empty
Shutdown ==
    /\ lifespan.pc = "serving"
    /\ lifespan' = [lifespan EXCEPT !.pc = "check"]
    /\ UNCHANGED <<restVars, registry, atasks, http, looked>>

\* wait_until_empty at `while self._tasks`
WaitUntilEmptyTest ==
    /\ lifespan.pc = "check"
    /\ lifespan' = IF registry = {} THEN [pc |-> "stopped", waiting |-> {}]
                   ELSE [pc |-> "wait", waiting |-> {e.task : e \in registry}]
    /\ UNCHANGED <<restVars, registry, atasks, http, looked>>

\* asyncio.wait(self._tasks.values()) returns: every task it was given is
\* done and has run its callbacks
WaitUntilEmptyWake ==
    /\ lifespan.pc = "wait"
    /\ \A n \in lifespan.waiting : Done(atasks[n]) /\ ~atasks[n].callbacks
    /\ lifespan' = [pc |-> "check", waiting |-> {}]
    /\ UNCHANGED <<restVars, registry, atasks, http, looked>>

\* preferences.wait: None without a Prefer header, or the seconds of wait=N
NoWait == 0
WaitSeconds == {1}
Waits == {NoWait} \cup WaitSeconds

\* POST /{name}: lines 81-95, up to the await of asyncio.wait
Endpoint ==
    /\ lifespan.pc = "serving"
    /\ Len(atasks) < MaxTasks
    /\ \E w \in Waits :
          http' = Append(http, [pc |-> "wait", wait |-> w, elapsed |-> 0,
                                id |-> Uuid(Len(atasks) + 1), status |-> 0,
                                body |-> "", location |-> NoLookup])
    /\ atasks' = Append(atasks, NewTask)
    /\ registry' = registry \cup
                      {[id |-> Uuid(Len(atasks) + 1), task |-> Len(atasks) + 1]}
    /\ UNCHANGED <<restVars, lifespan, looked>>

\* a second passes for an endpoint inside asyncio.wait with a timeout
Tick ==
    \E n \in 1..Len(http) :
        /\ http[n].pc = "wait"
        /\ http[n].wait # NoWait
        /\ http[n].elapsed < http[n].wait
        /\ http' = [http EXCEPT ![n].elapsed = @ + 1]
        /\ UNCHANGED <<restVars, registry, atasks, lifespan, looked>>

\* the timeout of asyncio.wait: `done` holds the task if it is done by now
Timeout ==
    \E n \in 1..Len(http) :
        /\ http[n].pc = "wait"
        /\ http[n].wait # NoWait
        /\ http[n].elapsed = http[n].wait
        /\ http' = [http EXCEPT ![n] = IF Done(atasks[n])
                                       THEN Responded(http[n], atasks[n])
                                       ELSE Accepted(http[n])]
        /\ UNCHANGED <<restVars, registry, atasks, lifespan, looked>>

\* the ids a client puts into the path of /tasks/{id}: always a str
PathIds == {StrOf(Uuid(k)) : k \in 1..MaxTasks}

\* GET /tasks/{id}: 404 when the registry gives None; asyncio.Task has no
\* to_dict, so a task that is found raises AttributeError
GetTask ==
    /\ lifespan.pc = "serving"
    /\ \E id \in PathIds :
          looked' = [op |-> "get_task", id |-> id,
                     found |-> Get(registry, id),
                     status |-> IF Get(registry, id) = 0 THEN 404 ELSE 500]
    /\ UNCHANGED <<restVars, registry, atasks, http, lifespan>>

\* POST /tasks/{id}/cancel
CancelTask ==
    /\ lifespan.pc = "serving"
    /\ \E id \in PathIds :
          /\ looked' = [op |-> "cancel_task", id |-> id,
                        found |-> Get(registry, id),
                        status |-> IF Get(registry, id) = 0 THEN 404 ELSE 500]
          /\ atasks' = IF Get(registry, id) = 0 THEN atasks
                       ELSE Cancel(atasks, Get(registry, id))
    /\ UNCHANGED <<restVars, registry, http, lifespan>>

NextTasks ==
    \/ Defer
    \/ TaskFinishes
    \/ RunDoneCallbacks
    \/ TasksGet
    \/ TasksCancel
    \/ Shutdown
    \/ WaitUntilEmptyTest
    \/ WaitUntilEmptyWake

\* the Tasks registry used directly
SpecTasks == InitNew /\ [][NextTasks]_vars

\* every task finishes, and the event loop runs what is ready to run
FairTasks ==
    /\ WF_vars(TaskFinishes)
    /\ WF_vars(RunDoneCallbacks)
    /\ WF_vars(WaitUntilEmptyTest)
    /\ WF_vars(WaitUntilEmptyWake)

SpecTasksLive == SpecTasks /\ FairTasks

NextHttp ==
    \/ Endpoint
    \/ Tick
    \/ Timeout
    \/ TaskFinishes
    \/ RunDoneCallbacks
    \/ GetTask
    \/ CancelTask
    \/ Shutdown
    \/ WaitUntilEmptyTest
    \/ WaitUntilEmptyWake

\* the FastAPI application of create_fastapi_app
SpecHttp == InitNew /\ [][NextHttp]_vars

----------------------------------------------------------------------------
(* Jobs and batches: hype.job                                              *)
(*                                                                         *)
(* A job is [canceled_at, error, completed_at, started_at], each saying    *)
(* whether the field is set (is not None); a batch is [jobs, canceled],    *)
(* canceled saying whether its canceled_at is set.                         *)

\* class Status
Statuses == {"pending", "running", "success", "failure", "canceled"}

Jobs == [canceled_at : BOOLEAN, error : BOOLEAN, completed_at : BOOLEAN,
         started_at : BOOLEAN]

\* the mutant: a status that looks at the error before the cancellation
JobStatusErrorFirst(job) ==
    IF job.error THEN "failure"
    ELSE IF job.canceled_at THEN "canceled"
    ELSE IF job.completed_at THEN "success"
    ELSE "pending"

\* Job.status
JobStatus(job) ==
    IF job.canceled_at THEN "canceled"
    ELSE IF job.error THEN "failure"
    ELSE IF job.completed_at THEN "success"
    ELSE "pending"

\* Batch.status
BatchStatus(b) ==
    IF b.canceled THEN "canceled"
    ELSE IF Len(b.jobs) = 0 THEN "pending"
    ELSE IF \E i \in 1..Len(b.jobs) : JobStatus(b.jobs[i]) = "running"
    THEN "running"
    ELSE IF \A i \in 1..Len(b.jobs) :
                JobStatus(b.jobs[i]) \in {"success", "failure", "canceled"}
    THEN IF \A i \in 1..Len(b.jobs) : JobStatus(b.jobs[i]) = "success"
         THEN "success"
         ELSE "failure"
    ELSE "pending"

\* Batch.progress: the number of jobs in each status
BatchProgress(b) ==
    [s \in Statuses |->
        Cardinality({i \in 1..Len(b.jobs) : JobStatus(b.jobs[i]) = s})]

\* job.status of a job of the batch
ReadJobStatus ==
    /\ \E i \in 1..Len(batch.jobs) :
          report' = [op |-> "job_status", job |-> i,
                     value |-> JobStatus(batch.jobs[i])]
    /\ UNCHANGED <<toolVars, deriveVars, inv, rpcVars, stdioVars, cli,
                 serverVars, batch>>

\* batch.status
ReadBatchStatus ==
    /\ report' = [op |-> "status", value |-> BatchStatus(batch)]
    /\ UNCHANGED <<toolVars, deriveVars, inv, rpcVars, stdioVars, cli,
                 serverVars, batch>>

\* batch.progress
ReadProgress ==
    /\ report' = [op |-> "progress", value |-> BatchProgress(batch)]
    /\ UNCHANGED <<toolVars, deriveVars, inv, rpcVars, stdioVars, cli,
                 serverVars, batch>>

\* any batch of at most MaxJobs jobs, canceled or not
InitJobs ==
    /\ phase = "new"
    /\ adapter = "anthropic"
    /\ supplied = <<>>
    /\ resultType = "None"
    /\ tools = <<>>
    /\ future = NoFuture
    /\ last = NoOp
    /\ NothingWrapped
    /\ inv = NoInvoke
    /\ functions = <<>>
    /\ rpc = NoRpc
    /\ stdin = [lines |-> <<>>, pos |-> 0, after |-> "eof"]
    /\ stdout = <<>>
    /\ yielded = <<>>
    /\ running = FALSE
    /\ cli = NoCli
    /\ NothingServed
    /\ \E js \in SeqsUpTo(Jobs, MaxJobs), c \in BOOLEAN :
          batch = [jobs |-> js, canceled |-> c]
    /\ report = NoReport

NextJobs ==
    \/ ReadJobStatus
    \/ ReadBatchStatus
    \/ ReadProgress

SpecJobs == InitJobs /\ [][NextJobs]_vars

----------------------------------------------------------------------------
(* What the claims speak of *)

\* the step is a dispatch of the calls last'.calls
IsDispatch == last'.op = "call"

\* a call that fails for an ordinary per-call reason: an unregistered name,
\* arguments that fail validation, or an exception of the callable's own body
OrdinaryFailure(c) ==
    \/ \A i \in 1..Len(tools) : tools[i].name # c.name
    \/ ~c.args.ok
    \/ \E i \in 1..Len(tools) :
          tools[i].name = c.name /\ tools[i].body = "calculate" /\ c.args.n = 0

\* a valid call of the capture tool
CaptureCall(c) ==
    /\ resultType # "None"
    /\ c.name = "__return__"
    /\ c.args.ok

\* a valid call of a registered tool other than the capture tool, which the
\* tool answers with a result
GoodCall(c) ==
    /\ c.name # "__return__"
    /\ ~OrdinaryFailure(c)

AllGood(cs) == Len(cs) >= 1 /\ \A i \in 1..Len(cs) : GoodCall(cs[i])

\* the dispatch of cs by the registry as it was constructed
FreshDispatch(cs) ==
    LET r == NewTools(adapter, supplied, FALSE, resultType)
    IN  CASE adapter = "anthropic" -> AnthropicCall(r.tools, r.future, cs[1])
          [] adapter = "openai" -> OpenAICall(r.tools, r.future, cs, 1, <<>>, 0)
          [] adapter = "ollama" -> OllamaCall(r.tools, r.future, cs, 1, <<>>, 0)

\* the dispatch reported an error or raised one
DispatchFailed(l) ==
    /\ l.op = "call"
    /\ \/ l.raised # ""
       \/ adapter = "anthropic" /\ \E i \in 1..Len(l.out) : l.out[i].is_error

----------------------------------------------------------------------------
(* C1 *)

\* C1: in a registry constructed with a result type the shared future is
\* never absent, a resolved future is left exactly as it is by every
\* dispatch, and a pending one only becomes resolved with a value or resolved
\* with a failure.
C1_FutureResolvesOnce ==
    [][resultType # "None" =>
          /\ future.state \in {"pending", "result", "exception"}
          /\ future'.state \in {"pending", "result", "exception"}
          /\ (future.state # "pending" => future' = future)]_vars

\* a resolved future has met a further attempt to resolve it
C1_Witness ==
    /\ resultType # "None"
    /\ future.state = "result"
    /\ last.op = "call"
    /\ last.raised = "InvalidStateError"

----------------------------------------------------------------------------
(* C2 *)

\* C2: a registry built with a result type holds exactly one entry that is
\* not a supplied function, named __return__; the dispatch of a valid call
\* of it on a pending future resolves the future to the value passed; with
\* the future resolved to a value, the dispatch of valid calls of other
\* registered tools runs each tool once, returns their results not as errors
\* and leaves the future as it is.
C2_CaptureProtocol ==
    [][(resultType # "None" /\ IsDispatch) =>
          /\ {i \in 1..Len(tools) :
                \A j \in 1..Len(supplied) : supplied[j] # tools[i]}
                = {Lookup(tools, "__return__")}
          /\ Lookup(tools, "__return__") # 0
          /\ (future.state = "pending" /\ Len(last'.calls) = 1
                /\ CaptureCall(last'.calls[1])) =>
                /\ future' = [state |-> "result",
                              value |-> IntVal(last'.calls[1].args.n),
                              exc |-> ""]
                /\ last'.raised = ""
          /\ (future.state = "result" /\ AllGood(last'.calls)) =>
                /\ future' = future
                /\ last'.raised = ""
                /\ last'.ran = Len(last'.calls)
                /\ last'.out = FreshDispatch(last'.calls).out
                /\ Len(last'.out) = Len(last'.calls)
                /\ (adapter = "anthropic" => ~last'.out[1].is_error)]_vars

\* after a capture, another tool has been dispatched and has answered
C2_Witness ==
    /\ future.state = "result"
    /\ future.value = IntVal(2)
    /\ last.op = "call"
    /\ Len(last.calls) = 1
    /\ last.calls[1].name = "calculate"
    /\ last.raised = ""
    /\ last.ran = 1

----------------------------------------------------------------------------
(* C3 *)

\* C3: in the Anthropic adapter over a result-capturing registry with a
\* pending future, the dispatch of a call that fails (unregistered name,
\* validation error, exception of the callable) resolves the future with
\* that failure and returns a tool_result with the call's id and is_error.
C3_ErrorRouting ==
    [][(/\ adapter = "anthropic"
        /\ resultType # "None"
        /\ future.state = "pending"
        /\ IsDispatch
        /\ OrdinaryFailure(last'.calls[1])) =>
          /\ future'.state = "exception"
          /\ future'.exc =
                (IF \A i \in 1..Len(tools) : tools[i].name # last'.calls[1].name
                 THEN "ValueError"
                 ELSE IF ~last'.calls[1].args.ok THEN "ValidationError"
                 ELSE "ZeroDivisionError")
          /\ last'.raised = ""
          /\ Len(last'.out) = 1
          /\ last'.out[1].type = "tool_result"
          /\ last'.out[1].tool_use_id = last'.calls[1].id
          /\ last'.out[1].is_error]_vars

\* a callable's own exception has been routed into the future and reported
C3_Witness ==
    /\ adapter = "anthropic"
    /\ future.state = "exception"
    /\ future.exc = "ZeroDivisionError"
    /\ last.op = "call"
    /\ last.out = <<AnthropicError(last.calls[1].id)>>

----------------------------------------------------------------------------
(* C4 *)

\* C4: for each adapter, with or without a result type, a dispatch with a
\* call that fails for an ordinary per-call reason does not raise: it
\* returns an error result for that call.
C4_DispatchNeverRaises ==
    (last.op = "call" /\ \E i \in 1..Len(last.calls) : OrdinaryFailure(last.calls[i]))
        => (last.raised = "" /\ Len(last.out) >= 1)

----------------------------------------------------------------------------
(* C5 *)

\* C5: with the future already resolved, the dispatch of a call that would
\* resolve it again (a valid capture call, or a failing call) keeps the
\* first resolution and completes with a result record instead of raising.
C5_LaterResolutionGuarded ==
    [][(/\ future.state \in {"result", "exception"}
        /\ IsDispatch
        /\ Len(last'.calls) = 1
        /\ (CaptureCall(last'.calls[1]) \/ OrdinaryFailure(last'.calls[1]))) =>
          /\ future' = future
          /\ last'.raised = ""
          /\ Len(last'.out) = 1]_vars

----------------------------------------------------------------------------
(* C6 *)

\* C6: after a dispatch that failed, the dispatch of valid calls of
\* registered tools other than the capture tool returns what the registry as
\* constructed returns for them, and that is not an error.
C6_FailureDoesNotPoison ==
    [][(DispatchFailed(last) /\ IsDispatch /\ AllGood(last'.calls)) =>
          /\ last'.raised = ""
          /\ last'.out = FreshDispatch(last'.calls).out
          /\ Len(last'.out) = Len(last'.calls)
          /\ (adapter = "anthropic" => ~last'.out[1].is_error)]_vars

\* a good call has been answered while the future holds an earlier failure
C6_Witness ==
    /\ future.state = "exception"
    /\ last.op = "call"
    /\ AllGood(last.calls)
    /\ last.raised = ""

----------------------------------------------------------------------------
(* C7 *)

\* C7: once a registry is constructed, no rendering and no dispatch changes
\* its name-to-descriptor mapping.
C7_RegistryImmutable ==
    [][phase = "ready" => tools' = tools]_vars

\* a dispatch has raised and the mapping is the one construction built
C7_Witness ==
    /\ last.op = "call"
    /\ last.raised = "ZeroDivisionError"
    /\ tools = NewTools(adapter, supplied, FALSE, resultType).tools

----------------------------------------------------------------------------
(* C8 *)

HasDuplicate(fs) ==
    \E i, j \in 1..Len(fs) : i # j /\ fs[i].name = fs[j].name

HasReserved(fs) == \E i \in 1..Len(fs) : fs[i].name = "__return__"

\* C8: constructing a registry fails when two supplied descriptors share a
\* name or one is named __return__; a constructed registry has unique names,
\* holds __return__ iff a result type was given, and has the future iff a
\* result type was given.
C8_ConstructionChecks ==
    /\ (phase # "new" /\ (HasDuplicate(supplied) \/ HasReserved(supplied)))
          => phase = "failed"
    /\ phase = "ready" =>
          /\ \A i, j \in 1..Len(tools) : tools[i].name = tools[j].name => i = j
          /\ (Lookup(tools, "__return__") # 0) <=> (resultType # "None")
          /\ (future.state # "absent") <=> (resultType # "None")

----------------------------------------------------------------------------
(* C9 *)

\* the declaration d carries the name, the description and the input
\* schema of the entry fn
DeclCarries(d, fn) ==
    LET f == IF adapter = "anthropic" THEN d ELSE d.function
        schema == IF adapter = "anthropic" THEN d.input_schema ELSE f.parameters
    IN  /\ f.name = fn.name
        /\ "description" \in DOMAIN f
        /\ f.description = fn.description
        /\ schema.of = fn.name

\* C9: rendering the tool list yields one declaration per registry entry,
\* in insertion order, the capture tool last, each with the tool's name,
\* description and input schema.
C9_RenderEveryTool ==
    last.op = "iter" =>
        /\ Len(last.out) = Len(tools)
        /\ \A i \in 1..Len(tools) : DeclCarries(last.out[i], tools[i])
        /\ resultType # "None" => tools[Len(tools)].name = "__return__"

----------------------------------------------------------------------------
(* C10 *)

\* the parameter carries a default value: a plain one, or a field descriptor
\* made with one
HasDefaultValue(p, h) ==
    \/ p.default.kind = "value"
    \/ p.default.kind = "field" /\ h[p.default.ref].has_default

\* C10: the derived Input type has one field per parameter, in declaration
\* order, with the order markers 0..N-1 in that order, and a field is
\* required iff its parameter has no default value.
C10_InputFields ==
    derived.done =>
        /\ Len(derived.input) = Len(func.params)
        /\ \A k \in 1..Len(func.params) :
              /\ derived.input[k].name = func.params[k].name
              /\ derived.input[k].order = k - 1
              /\ derived.input[k].required <=> ~HasDefaultValue(func.params[k], heap)

----------------------------------------------------------------------------
(* C11 *)

\* the description the parameter's field should carry, from the objects as
\* the caller made them: the field descriptor's own description, else the
\* docstring's description of the parameter, else none
ExpectedDescription(p, h, doc) ==
    IF p.default.kind = "field" /\ h[p.default.ref].description # ""
    THEN h[p.default.ref].description
    ELSE IF p.name \in doc.params THEN ParamDoc(p.name) ELSE ""

\* C11: every Input field's description is the explicit description of the
\* parameter's field descriptor when it has one, otherwise the docstring's
\* description of that parameter, otherwise absent.
C11_FieldDescriptions ==
    [][(~derived.done /\ derived'.done) =>
          \A k \in 1..Len(func.params) :
              derived'.input[k].description
                 = ExpectedDescription(func.params[k], heap, func.doc)]_vars

----------------------------------------------------------------------------
(* C12 *)

\* C12: when the return type is not a record type, the description of the
\* Output root field is the description in the annotated return type's
\* metadata when there is one, otherwise the docstring's return description
\* when there is one (also for an annotated return type whose metadata has
\* no description), otherwise none.
C12_RootDescription ==
    (derived.done /\ func.ret # "model") =>
        derived.output.description =
            IF func.ret = "annotated_described" THEN "from annotation"
            ELSE func.doc.returns

----------------------------------------------------------------------------
(* C13 *)

\* C13: the Output type is the declared return type itself when that is a
\* record type; otherwise it is a wrapper with exactly one field, root, over
\* the return type, and over any value when there is no return annotation.
C13_OutputShape ==
    derived.done =>
        IF func.ret = "model"
        THEN /\ derived.output.kind = "verbatim"
             /\ derived.output.type = "model"
        ELSE /\ derived.output.kind = "root"
             /\ derived.output.fields = <<"root">>
             /\ derived.output.type
                   = IF func.ret = "missing" THEN "any" ELSE "int"

\* a record type was derived as itself
C13_Witness ==
    derived.done /\ func.ret = "model" /\ derived.output.kind = "verbatim"

----------------------------------------------------------------------------
(* C14 *)

\* C14: invoking a descriptor validates the arguments before the callable
\* runs: arguments that fail the input validation (a required one missing,
\* an unknown name, a wrong type, a value outside its constraint) raise a
\* validation error and the body never runs; for valid arguments the body
\* runs exactly once and what it returned, validated against the return
\* type, is the result.
C14_ValidateThenRun ==
    inv.op = "invoke" =>
        IF ValidateArgs(inv.fn, inv.kw)
        THEN /\ inv.ran = 1
             /\ LET b == TypedBody(inv.fn, inv.kw)
                IN  b.exc = "" =>
                       /\ inv.exc = ""
                       /\ inv.value = b.value
                       /\ inv.value.t = inv.fn.returns
        ELSE /\ inv.exc = "ValidationError"
             /\ inv.ran = 0

\* a value outside its constraint was refused before the body ran
C14_Witness ==
    /\ inv.op = "invoke"
    /\ inv.fn = FloorDivideFn
    /\ DOMAIN inv.kw = {"x", "y"}
    /\ inv.kw["x"] = IntVal(2)
    /\ inv.kw["y"] = IntVal(0)
    /\ inv.exc = "ValidationError"
    /\ inv.ran = 0

----------------------------------------------------------------------------
(* C15 *)

\* the registry with every async def replaced by its synchronous equivalent
SyncTools(ts) ==
    [i \in 1..Len(ts) |->
        IF ts[i].body \in TypedBodies THEN SyncEquivalent(ts[i]) ELSE ts[i]]

\* the dispatch of cs by the adapter over the registry ts
DispatchOver(ts, fut, cs) ==
    CASE adapter = "anthropic" -> AnthropicCall(ts, fut, cs[1])
      [] adapter = "openai" -> OpenAICall(ts, fut, cs, 1, <<>>, 0)
      [] adapter = "ollama" -> OllamaCall(ts, fut, cs, 1, <<>>, 0)

\* C15: a descriptor over an async callable gives, invoked directly or
\* through any of the three adapters, what its synchronous equivalent
\* gives: the awaitable is awaited exactly once (the body runs once) and
\* the result records hold the awaited value, never the awaitable.
C15_AsyncTransparent ==
    [][/\ (inv' # inv /\ inv'.op = "invoke") =>
             LET s == Invoke(SyncEquivalent(inv'.fn), inv'.kw)
             IN  /\ inv'.exc = s.exc
                 /\ inv'.value = s.value
                 /\ inv'.ran = s.ran
       /\ IsDispatch =>
             LET s == DispatchOver(SyncTools(tools), future, last'.calls)
             IN  /\ last'.raised = s.raised
                 /\ last'.out = s.out
                 /\ last'.ran = s.ran]_vars

----------------------------------------------------------------------------
(* C16 *)

\* the tool the request names, 0 when it names none
NamedTool(request) ==
    IF request.params.name = "" THEN 0 ELSE Lookup(functions, request.params.name)

\* the arguments the request carries for its tool
ArgumentsOf(request) == CallToolRequest(request.params).arguments

\* C16: an unknown method, or a tools/call naming an unknown tool, gives
\* -32601; malformed tools/call params or arguments that fail validation
\* give -32602; any other exception raised while the tool runs gives -32603.
C16_ErrorCodes ==
    rpc.op = "handle" =>
        LET q == rpc.request
            code == rpc.response.error.code
            malformed == CallToolRequest(q.params).exc # ""
            i == NamedTool(q)
        IN  /\ q.method \notin {"tools/list", "tools/call"} => code = METHOD_NOT_FOUND
            /\ (q.method = "tools/call" /\ malformed) => code = INVALID_PARAMS
            /\ (q.method = "tools/call" /\ ~malformed /\ i = 0)
                  => code = METHOD_NOT_FOUND
            /\ (q.method = "tools/call" /\ ~malformed /\ i # 0) =>
                  IF ~ValidateArgs(functions[i], ArgumentsOf(q))
                  THEN code = INVALID_PARAMS
                  ELSE TypedBody(functions[i], ArgumentsOf(q)).exc # ""
                          => code = INTERNAL_ERROR

----------------------------------------------------------------------------
(* C17 *)

\* C17: for every request the handler returns one response whose id is the
\* request's id (a string, an integer or null) and in which exactly one of
\* result and error is set.
C17_OneResponsePerRequest ==
    rpc.op = "handle" =>
        /\ rpc.response.id = rpc.request.id
        /\ (rpc.response.result = NoResult) # (rpc.response.error = NoError)

\* an error response to a request with a string id
C17_Witness ==
    /\ rpc.op = "handle"
    /\ rpc.request.id = TextVal
    /\ rpc.response.id = TextVal
    /\ rpc.response.error.code = INTERNAL_ERROR
    /\ rpc.response.result = NoResult

----------------------------------------------------------------------------
(* C18 *)

\* the request is a well-formed tools/call of an async tool
CallsAsyncTool(request) ==
    /\ request.method = "tools/call"
    /\ CallToolRequest(request.params).exc = ""
    /\ NamedTool(request) # 0
    /\ functions[NamedTool(request)].is_async

\* C18: a tools/call of a tool over an async callable answers as the call of
\* the synchronous equivalent does, the text content being the awaited
\* value and not a coroutine, and when the arguments are valid the callable
\* is awaited exactly once and its body runs once.
C18_AsyncToolAwaited ==
    (rpc.op = "handle" /\ CallsAsyncTool(rpc.request)) =>
        LET s == HandleJsonRpcRequest(rpc.request, SyncTools(functions))
            fn == functions[NamedTool(rpc.request)]
        IN  /\ rpc.response = s.response
            /\ rpc.ran = s.ran
            /\ ValidateArgs(fn, ArgumentsOf(rpc.request)) =>
                  /\ rpc.awaits = 1
                  /\ rpc.ran = 1
            /\ rpc.response.result # NoResult =>
                  rpc.response.result.text # Str(CoroVal)

\* divide answered with its quotient
C18_Witness ==
    /\ rpc.op = "handle"
    /\ CallsAsyncTool(rpc.request)
    /\ ArgumentsOf(rpc.request) = [n \in {"a", "b"} |-> IntVal(2)]
    /\ rpc.response.result = [kind |-> "content", type |-> "text", text |-> "1.0"]
    /\ rpc.awaits = 1

----------------------------------------------------------------------------
(* C19 *)

\* the lines read so far that are not blank, in input order
AnsweredLines ==
    LET NotBlank(l) == l.kind # "blank"
    IN  SelectSeq(SubSeq(stdin.lines, 1, stdin.pos), NotBlank)

----------------------------------------------------------------------------
(* C20 *)

\* the entries the run reported, in the output file or on stdout
Reported == IF cli.to_file THEN cli.file ELSE cli.echoed

\* the entry is a job record with the status, and holds the output
IsJobRecord(entry, status, output) ==
    /\ {"status", "output", "error"} \subseteq DOMAIN entry
    /\ entry.status = status
    /\ entry.output = output

\* C20: a run over an input file with several inputs reports one job record
\* per input, in input order; an input that fails validation gives a record
\* with status failure, null output and an error, and the inputs after it
\* are still processed and reported with status success and their outputs.
C20_BatchJobRecords ==
    cli.op = "batch" =>
        /\ cli.exc = ""
        /\ Len(Reported) = Len(cli.inputs)
        /\ \A k \in 1..Len(cli.inputs) :
              LET kw == ApplyDefaults(cli.fn, cli.inputs[k])
              IN  IF ValidateArgs(cli.fn, kw)
                  THEN IsJobRecord(Reported[k], "success", TypedBody(cli.fn, kw).value)
                  ELSE /\ IsJobRecord(Reported[k], "failure", NoneVal)
                       /\ Reported[k].error # NoneVal

----------------------------------------------------------------------------
(* C21 *)

\* the step is the dispatch of a batch by one of the batch adapters
IsBatchDispatch == IsDispatch /\ adapter \in {"openai", "ollama"}

\* the calls of cs that fail for an ordinary per-call reason
FailingCalls(cs) == {i \in 1..Len(cs) : OrdinaryFailure(cs[i])}

\* C21: in the batch adapters a failing call of a batch is contained: the
\* dispatch does not raise, it returns one entry per call of the batch (an
\* error entry for the failing one), and with a result type and the future
\* still pending the future becomes resolved with the failure.
C21_BatchFailureContained ==
    [][(IsBatchDispatch /\ FailingCalls(last'.calls) # {}) =>
          /\ last'.raised = ""
          /\ Len(last'.out) = Len(last'.calls)
          /\ (resultType # "None" /\ future.state = "pending"
                => future'.state = "exception")]_vars

----------------------------------------------------------------------------
(* C22 *)

\* the positions of cs that call the capture tool
CaptureCalls(cs) == {i \in 1..Len(cs) : cs[i].name = "__return__"}

\* every call of cs succeeds: each is a valid call of a registered tool that
\* answers with a result, or the one valid capture call of the batch, made
\* while the future is pending
AllSucceed(cs) ==
    /\ Len(cs) >= 1
    /\ \A i \in 1..Len(cs) : GoodCall(cs[i]) \/ CaptureCall(cs[i])
    /\ CaptureCalls(cs) # {} =>
          Cardinality(CaptureCalls(cs)) = 1 /\ future.state = "pending"

\* what the tool called by c returns: the capture returns None
ResultOf(c) ==
    IF c.name = "__return__" THEN NoneVal
    ELSE Body(tools[Lookup(tools, c.name)], c.args.n, future).value

\* C22: in the batch adapters the dispatch of a batch whose calls all succeed
\* does not raise, runs one tool body per call and returns one output per
\* call in call order: in the Ollama adapter the result of call i, in the
\* OpenAI adapter the id of call i with the stringified result of call i.
C22_BatchOutputs ==
    [][(IsBatchDispatch /\ AllSucceed(last'.calls)) =>
          /\ last'.raised = ""
          /\ last'.ran = Len(last'.calls)
          /\ Len(last'.out) = Len(last'.calls)
          /\ \A i \in 1..Len(last'.calls) :
                IF adapter = "openai"
                THEN /\ last'.out[i].tool_call_id = last'.calls[i].id
                     /\ last'.out[i].output = Str(ResultOf(last'.calls[i]))
                ELSE last'.out[i] = ResultOf(last'.calls[i])]_vars

\* the OpenAI adapter has answered a batch of two different successful calls
C22_Witness ==
    /\ adapter = "openai"
    /\ last.op = "call"
    /\ last.raised = ""
    /\ Len(last.calls) = 2
    /\ Len(last.out) = 2
    /\ last.calls[1].name # last.calls[2].name
    /\ last.out[1].output # last.out[2].output

----------------------------------------------------------------------------
(* C23 *)

\* the request is a well-formed call of a registered tool whose arguments
\* pass the input validation, so that the body of the tool runs
RunsTool(request) ==
    /\ request.method = "tools/call"
    /\ CallToolRequest(request.params).exc = ""
    /\ NamedTool(request) # 0
    /\ ValidateArgs(functions[NamedTool(request)], ArgumentsOf(request))

\* C23: a request answered with Invalid params (-32602) is one whose params
\* or arguments failed validation: an exception raised by the body of the
\* tool on valid arguments is never reported as invalid params.
C23_BodyFailureNotValidation ==
    (rpc.op = "handle" /\ RunsTool(rpc.request)
        /\ TypedBody(functions[NamedTool(rpc.request)],
                     ArgumentsOf(rpc.request)).exc # "")
      => rpc.response.error.code # INVALID_PARAMS

----------------------------------------------------------------------------
(* C24 *)

\* C24: constructing Anthropic tools fails when a supplied function's name
\* does not match the name pattern, and a constructed registry holds every
\* supplied function, whatever iterable supplied them.
C24_AnthropicConstruction ==
    (adapter = "anthropic" /\ phase # "new") =>
        /\ (\E i \in 1..Len(supplied) : ~ANTHROPIC_TOOL_NAME_RE(supplied[i].name))
              => phase = "failed"
        /\ phase = "ready" =>
              \A i \in 1..Len(supplied) :
                  \E j \in 1..Len(tools) : tools[j] = supplied[i]

----------------------------------------------------------------------------
(* C25 *)

\* the task n is registered under the id defer returned for it
Registered(n) == Get(registry, Uuid(n)) = n

\* C25: a deferred task is retrievable by its id for as long as it runs, and
\* its entry is removed exactly once, by the done callback, however the task
\* ended; wait_until_empty returns only when the registry is empty, and once
\* called it returns eventually when every task finishes.
C25_TasksRegistry ==
    /\ [](\A n \in 1..Len(atasks) :
            /\ ~Done(atasks[n]) => Registered(n)
            /\ atasks[n].pops = IF Registered(n) THEN 0 ELSE 1
            /\ (Done(atasks[n]) /\ ~atasks[n].callbacks) => ~Registered(n))
    /\ [][(lifespan.pc # "stopped" /\ lifespan'.pc = "stopped")
             => registry = {} /\ registry' = {}]_vars
    /\ (lifespan.pc = "check") ~> (lifespan.pc = "stopped")

\* wait_until_empty has returned after tasks that ended in different ways,
\* one of them cancelled, were removed
C25_Witness ==
    /\ lifespan.pc = "stopped"
    /\ Len(atasks) = MaxTasks
    /\ \E n \in 1..Len(atasks) : atasks[n].state = "cancelled" /\ atasks[n].pops = 1
    /\ \E n \in 1..Len(atasks) : atasks[n].state = "result" /\ atasks[n].pops = 1
    /\ looked.op = "cancel"

----------------------------------------------------------------------------
(* C26 *)

\* the endpoint call n has been answered 202
Answered202(n) == http[n].pc = "done" /\ http[n].status = 202

\* C26: a call of a function's endpoint starts a tracked task and waits for
\* it no longer than the Prefer wait time. If the task is done by then the
\* call is answered from the task (its result with status 200); otherwise it
\* is answered 202 with Location /tasks/{id} of its task, which keeps running
\* and stays tracked until it finishes. The lifespan's shutdown returns only
\* when no task is tracked.
C26_WaitOrAccept ==
    /\ [](\A n \in 1..Len(http) :
            /\ http[n].id = Uuid(n)
            /\ ~Done(atasks[n]) => Registered(n)
            /\ http[n].wait # NoWait => http[n].elapsed <= http[n].wait
            /\ (http[n].pc = "done" /\ http[n].status # 202) =>
                  /\ Done(atasks[n])
                  /\ http[n].body = atasks[n].state
                  /\ (http[n].status = 200) <=> (atasks[n].state = "result")
            /\ Answered202(n) =>
                  /\ http[n].wait # NoWait
                  /\ http[n].elapsed = http[n].wait
                  /\ http[n].location = StrOf(Uuid(n)))
    /\ [][\A n \in 1..Len(http) :
            (http[n].pc = "wait" /\ http'[n].pc = "done") =>
                /\ (http'[n].status = 202) <=> ~Done(atasks[n])
                /\ http'[n].status = 202 =>
                      /\ atasks' = atasks
                      /\ registry' = registry
                      /\ Get(registry, Uuid(n)) = n]_vars
    /\ [](lifespan.pc = "stopped" =>
            /\ registry = {}
            /\ \A n \in 1..Len(atasks) : Done(atasks[n]))

\* one call was answered 202 and its task finished afterwards, another call
\* was answered with its task's result, and the shutdown has returned
C26_Witness ==
    /\ lifespan.pc = "stopped"
    /\ \E n \in 1..Len(http) : Answered202(n) /\ atasks[n].state = "result"
    /\ \E n \in 1..Len(http) : http[n].status = 200

----------------------------------------------------------------------------
(* C27 *)

\* the step is a GET /tasks/{id} or a POST /tasks/{id}/cancel whose id is
\* the one in the Location of the 202 answer to call n, made while the task
\* of call n is running
LooksUpRunning(n) ==
    /\ looked' # looked
    /\ looked'.op \in {"get_task", "cancel_task"}
    /\ Answered202(n)
    /\ looked'.id = http[n].location
    /\ ~Done(atasks[n])

\* C27: while the task of a call answered 202 is running, a lookup or a
\* cancel with the id of the Location header finds the task (no 404), and
\* the cancel asks the task to cancel, so that it ends cancelled and leaves
\* the registry.
C27_TaskEndpointsFind ==
    [][\A n \in 1..Len(http) :
          LooksUpRunning(n) =>
              /\ looked'.status # 404
              /\ looked'.found = n
              /\ looked'.op = "cancel_task" => atasks'[n].must_cancel]_vars

----------------------------------------------------------------------------
(* C28 *)

\* C28: the stdio handler terminates on every input stream whose reads end
\* with end-of-file or fail: each resumption either stops the handler or has
\* consumed a line of the input, so that the handler stops within one
\* resumption per line and one more, and it never emits more responses than
\* one per line read and one for a failed read.
C28_HandlerTerminates ==
    [][/\ running' => stdin'.pos > stdin.pos
       /\ Len(stdout') <= stdin'.pos + 1]_vars

----------------------------------------------------------------------------
(* C29 *)

\* the statuses of the jobs of the batch
JobStatuses == [i \in 1..Len(batch.jobs) |-> JobStatus(batch.jobs[i])]

Finished(s) == s \in {"success", "failure", "canceled"}

\* C29: a job is canceled when its cancellation time is set, else failure
\* when it has an error, else success when its completion time is set, else
\* pending. A batch is canceled when it is canceled; else pending without
\* jobs; else running when a job is running; else success exactly when all
\* jobs are success, failure when all jobs are finished and one is not
\* success, and pending otherwise. The progress counts sum to the number of
\* jobs.
C29_StatusPrecedence ==
    /\ report.op = "job_status" =>
          LET j == batch.jobs[report.job]
          IN  /\ j.canceled_at => report.value = "canceled"
              /\ (~j.canceled_at /\ j.error) => report.value = "failure"
              /\ (~j.canceled_at /\ ~j.error /\ j.completed_at)
                    => report.value = "success"
              /\ (~j.canceled_at /\ ~j.error /\ ~j.completed_at)
                    => report.value = "pending"
    /\ report.op = "status" =>
          LET S == JobStatuses
              n == Len(S)
              all(P(_)) == \A i \in 1..n : P(S[i])
              IsSuccess(s) == s = "success"
          IN  /\ batch.canceled => report.value = "canceled"
              /\ (~batch.canceled /\ n = 0) => report.value = "pending"
              /\ (~batch.canceled /\ n > 0) =>
                    /\ (\E i \in 1..n : S[i] = "running") => report.value = "running"
                    /\ (report.value = "success") <=> all(IsSuccess)
                    /\ (all(Finished) /\ ~all(IsSuccess)) => report.value = "failure"
                    /\ (~all(Finished) /\ \A i \in 1..n : S[i] # "running")
                          => report.value = "pending"
    /\ report.op = "progress" =>
          /\ DOMAIN report.value = Statuses
          /\ report.value["pending"] + report.value["running"]
                + report.value["success"] + report.value["failure"]
                + report.value["canceled"] = Len(batch.jobs)

\* the status read of a job that is canceled and has an error
C29_Witness ==
    /\ report.op = "job_status"
    /\ batch.jobs[report.job].canceled_at
    /\ batch.jobs[report.job].error
    /\ report.value = "canceled"
    /\ BatchStatus(batch) = "failure"

----------------------------------------------------------------------------
(* C30 *)

\* C30: a line that is JSON but no valid request object is answered with an
\* Invalid Request error (-32600), and the lines after it are processed.
C30_InvalidRequest ==
    stdin.pos <= Len(stdin.lines) =>
        /\ Len(stdout) = Len(AnsweredLines)
        /\ \A k \in 1..Len(AnsweredLines) :
              AnsweredLines[k].kind = "notrequest" =>
                  stdout[k].error.code = INVALID_REQUEST

====
